---- MODULE Spec2Model ----
(***************************************************************************)
(* Grading engine of qa-lab (apps/api): the orchestrator job               *)
(* _grade_submission_async with its retry loop, the sandbox runner         *)
(* _run_grader_from_bundle_bytes, the stale-job watchdog, the rq grading   *)
(* queue and its workers, and the archive extractor                        *)
(* _safe_extract_zip_bytes.                                                *)
(*                                                                         *)
(* Spec          the grading pipeline: submit, dequeue, job steps,         *)
(*               watchdog                                                  *)
(* SpecExtract   _safe_extract_zip_bytes, member by member, on a bounded   *)
(*               family of archives                                        *)
(* SpecWatchdog  the pipeline with a clock, created_at and worker crashes; *)
(*               SpecWatchdogFair adds fair scheduling                     *)
(* SpecAdmission admission control: the queue and one user's rows          *)
(* SpecScore     _build_grade_feedback on a bounded family of reports      *)
(* SpecFeedback  the feedback _build_grade_feedback builds, on two reports *)
(*               that differ in their hidden tests only                    *)
(* SpecExam      an exam submission: the answer-key grading job with the   *)
(*               fallback grader, appeals, manual grades, result sharing   *)
(* SpecSnapshot  a submission's bundle and rubric snapshots against edits  *)
(*               of its problem version                                    *)
(* SpecOutput    what the runner returns on each of its return paths, and  *)
(*               what a job attempt and a public dry run do with it        *)
(* SpecRubric    _load_rubric: the sandbox timeout for each value of       *)
(*               time_limit_seconds and of the operator's ceiling          *)
(* SpecRequeue   SpecWatchdog with the watchdog sweep interrupted between  *)
(*               its commit and its enqueue loop                           *)
(* SpecAppeal    SpecExam on an exam of subjective questions, with         *)
(*               redelivered and interrupted jobs                          *)
(* SpecExamFair  SpecExam under fair scheduling of the job's steps         *)
(***************************************************************************)
EXTENDS Integers, Sequences, FiniteSets, TLC

\* ------------------------------------------------------------------ bounds
\* Submissions that may be created.
NSubs == 1
\* Jobs that may ever be put on the grading queue (submit, watchdog, regrade).
MaxJobs == 2

\* ------------------------------------------------------- program constants
\* Read from the environment (default 3); two attempts show the retry loop.
GRADING_RETRY_MAX_ATTEMPTS == 2
\* Read from the environment (defaults 200 and 3), scaled down so that a few
\* submissions reach them.
SUBMISSION_QUEUE_MAX_DEPTH == 2
SUBMISSION_MAX_ACTIVE_PER_USER == 2
\* max_requeue, the default of requeue_stale_running_submissions.
MAX_REQUEUE == 100

NULL == "null"
Subs == 1..NSubs
Workers == {1, 2}

Max(a, b) == IF a >= b THEN a ELSE b

\* SubmissionStatus, and NONE for a row that does not exist yet.
QUEUED == "QUEUED"
RUNNING == "RUNNING"
GRADED == "GRADED"
FAILED == "FAILED"
NONE == "NONE"

\* --------------------------------------------------------- error messages
\* A message is a sequence of phrases; the phrases keep their letter case so
\* that lower() does something.
Lower(p) ==
    CASE p = "BUNDLE SHA256 MISMATCH" -> "bundle sha256 mismatch"
      [] p = "Bundle Extract Failed" -> "bundle extract failed"
      [] OTHER -> p

NON_RETRYABLE_ERROR_MARKERS ==
    {"bundle sha256 mismatch", "bundle extract failed", "bundle missing test target"}

\* marker in lowered, for one marker
Contains(msg, marker) == \E i \in 1..Len(msg) : Lower(msg[i]) = marker

\* Variant: every failure is taken to be retryable.
IsRetryable_Always(msg) == TRUE
\* _is_retryable_failure
IsRetryable(msg) == ~ \E m \in NON_RETRYABLE_ERROR_MARKERS : Contains(msg, m)

\* ------------------------------------------------------------------ paths
\* A path is the sequence of its components below the root "/".
\* The scratch directory a job extracts into (already resolved).
Destination == <<"tmp", "work">>

\* A zip member: its name split at "/", whether the name starts with "/",
\* whether it ends with "/" (ZipInfo.is_dir), its uncompressed size and whether
\* its mode bits say symlink.
Member(name, abs, dir, size, symlink) ==
    [name |-> name, abs |-> abs, dir |-> dir, size |-> size, symlink |-> symlink]

\* destination / member_name: an absolute name replaces the left operand.
Join(d, m) == IF m.abs THEN m.name ELSE d \o m.name

\* Path.resolve() on a tree that holds no symlink: "." is dropped and ".."
\* removes the component before it (and stays at the root).
RECURSIVE Resolve(_)
Resolve(p) ==
    IF p = <<>> THEN <<>>
    ELSE LET front == Resolve(SubSeq(p, 1, Len(p) - 1))
             last == p[Len(p)]
         IN  IF last = "." THEN front
             ELSE IF last = ".."
                  THEN (IF front = <<>> THEN <<>> ELSE SubSeq(front, 1, Len(front) - 1))
                  ELSE Append(front, last)

\* os.path.commonpath of two absolute paths: their longest common prefix.
RECURSIVE CommonPath(_, _)
CommonPath(a, b) ==
    IF a = <<>> \/ b = <<>> \/ Head(a) # Head(b) THEN <<>>
    ELSE <<Head(a)>> \o CommonPath(Tail(a), Tail(b))

Prefixes(p) == {SubSeq(p, 1, n) : n \in 0..Len(p)}

\* target = (destination / member_name).resolve()
TargetOf(d, m) == Resolve(Join(d, m))

\* the check the extractor makes on a member's target
\* Variant: the containment test on the joined path, ".." left in place.
Inside_Unresolved(d, m) == CommonPath(Join(d, m), d) = d
Inside(d, m) == CommonPath(TargetOf(d, m), d) = d

\* Where a write to path p lands on disk: the file system resolves ".." itself.
Lands(p) == Resolve(p)

\* -------------------------------------------------------------- extractor
\* Operator-configured limits (environment variables), set small here.
BUNDLE_MAX_ENTRIES == 2
BUNDLE_MAX_UNCOMPRESSED_BYTES == 3

\* Longest archive of the family SpecExtract runs over.
MaxMembers == 3

ErrTooMany == "bundle has too many files"
ErrTooLarge == "bundle uncompressed size is too large"
ErrSymlink == "symlink entry is not allowed"
ErrTraversal == "Zip path traversal detected"
\* FileExistsError, NotADirectoryError, IsADirectoryError of mkdir and open
ErrOS == "OSError"

\* The scratch tree before extraction: the destination and its ancestors.
EmptyFs == [dirs |-> Prefixes(Destination), files |-> {}]

\* The first loop of _safe_extract_zip_bytes over members[i..]: the running
\* size total and the symlink check, in member order.
RECURSIVE ScanMembers(_, _, _)
ScanMembers(members, i, total) ==
    IF i > Len(members) THEN NULL
    ELSE LET t == total + members[i].size
         IN  IF t > BUNDLE_MAX_UNCOMPRESSED_BYTES THEN ErrTooLarge
             ELSE IF members[i].symlink THEN ErrSymlink
             ELSE ScanMembers(members, i + 1, t)

\* Everything _safe_extract_zip_bytes checks before it writes anything.
PreCheck(members) ==
    IF Len(members) > BUNDLE_MAX_ENTRIES THEN ErrTooMany
    ELSE ScanMembers(members, 1, 0)

\* Path.mkdir(parents=True, exist_ok=True)
MkdirP(fs, p) ==
    IF \E q \in Prefixes(p) : q \in fs.files
    THEN [fs |-> fs, err |-> ErrOS]
    ELSE [fs |-> [fs EXCEPT !.dirs = @ \cup Prefixes(p)], err |-> NULL]

\* open(target, "wb") and the copy into it
WriteFile(fs, p) ==
    IF p \in fs.dirs
    THEN [fs |-> fs, err |-> ErrOS]
    ELSE [fs |-> [fs EXCEPT !.files = @ \cup {p}], err |-> NULL]

Parent(p) == IF p = <<>> THEN <<>> ELSE SubSeq(p, 1, Len(p) - 1)

\* One iteration of the second loop of _safe_extract_zip_bytes.
ExtractMember(fs, m) ==
    IF m.name = <<>> /\ ~m.abs THEN [fs |-> fs, err |-> NULL]
    ELSE IF ~Inside(Destination, m) THEN [fs |-> fs, err |-> ErrTraversal]
    ELSE LET target == Lands(TargetOf(Destination, m))
         IN  IF m.dir THEN MkdirP(fs, target)
             ELSE LET made == MkdirP(fs, Parent(target))
                  IN  IF made.err # NULL THEN made ELSE WriteFile(made.fs, target)

RECURSIVE ExtractFrom(_, _, _)
ExtractFrom(members, i, fs) ==
    IF i > Len(members) THEN [fs |-> fs, err |-> NULL]
    ELSE LET r == ExtractMember(fs, members[i])
         IN  IF r.err # NULL THEN r ELSE ExtractFrom(members, i + 1, r.fs)

\* _safe_extract_zip_bytes(zip_bytes, destination) as a whole: the tree it
\* leaves and the error it raised (NULL: none).
SafeExtract(members) ==
    LET pre == PreCheck(members)
    IN  IF pre # NULL THEN [fs |-> EmptyFs, err |-> pre]
        ELSE ExtractFrom(members, 1, EmptyFs)

\* Members the archives of the model are built from.
MTests == Member(<<"tests", "t.py">>, FALSE, FALSE, 1, FALSE)
MStatement == Member(<<"statement.md">>, FALSE, FALSE, 1, FALSE)
MEscape == Member(<<"..", "escape.txt">>, FALSE, FALSE, 1, FALSE)
MInnerEscape == Member(<<"a", "..", "..", "b">>, FALSE, FALSE, 1, FALSE)
MEscapeDir == Member(<<"..", "out">>, FALSE, TRUE, 1, FALSE)
MAbsolute == Member(<<"etc", "x">>, TRUE, FALSE, 1, FALSE)
MBackInside == Member(<<"..", "work", "x">>, FALSE, FALSE, 1, FALSE)
MTestsDir == Member(<<"tests">>, FALSE, TRUE, 0, FALSE)
MTestsAsFile == Member(<<"tests">>, FALSE, FALSE, 1, FALSE)
MEmptyName == Member(<<>>, FALSE, FALSE, 0, FALSE)
MSymlink == Member(<<"link">>, FALSE, FALSE, 1, TRUE)
MBig == Member(<<"big.bin">>, FALSE, FALSE, 3, FALSE)

Members ==
    {MTests, MStatement, MEscape, MInnerEscape, MEscapeDir, MAbsolute, MBackInside,
     MTestsDir, MTestsAsFile, MEmptyName, MSymlink, MBig}

RECURSIVE SeqsUpTo(_, _)
SeqsUpTo(S, n) ==
    IF n = 0 THEN {<<>>}
    ELSE LET shorter == SeqsUpTo(S, n - 1)
         IN  shorter \cup {Append(q, x) : q \in shorter, x \in S}

Archives == SeqsUpTo(Members, MaxMembers)

\* --------------------------------------------------------- sandbox runner
\* A null score (GradeRun.score of a failed attempt).
NoScore == 0 - 1

\* sha256 digests are small numbers; NoHash is a null or empty expected hash.
NoHash == 0

\* What a bundle key leads to: whether storage can read the file, the digest
\* and the members of the bytes read, and whether rubric.yaml parses.
Bytes(readable, digest, archive, rubric) ==
    [readable |-> readable, digest |-> digest, archive |-> archive, rubric |-> rubric]

\* The bundle a submission is graded against: bundle_key (FALSE: null), the
\* expected sha256, and the stored bytes.
Bundle(key, expected, bytes) == [key |-> key, expected |-> expected, bytes |-> bytes]

GoodBytes == Bytes(TRUE, 1, <<MStatement, MTests>>, "ok")
BundleGood == Bundle(TRUE, 1, GoodBytes)
BundleNoKey == Bundle(FALSE, NoHash, GoodBytes)
\* bundle_key set, bundle_sha256 and its snapshot null (both columns nullable)
BundleNoHash == Bundle(TRUE, NoHash, GoodBytes)
BundleTampered == Bundle(TRUE, 1, Bytes(TRUE, 2, <<MStatement, MTests>>, "ok"))
BundleZipSlip == Bundle(TRUE, 1, Bytes(TRUE, 1, <<MEscape, MTests>>, "ok"))
BundleNoTests == Bundle(TRUE, 1, Bytes(TRUE, 1, <<MStatement>>, "ok"))
BundleBadRubric == Bundle(TRUE, 1, Bytes(TRUE, 1, <<MStatement, MTests>>, "malformed"))
BundleUnreadable == Bundle(TRUE, 1, Bytes(FALSE, 1, <<MStatement, MTests>>, "ok"))

Bundles ==
    {BundleGood, BundleNoKey, BundleNoHash, BundleTampered, BundleZipSlip, BundleNoTests,
     BundleBadRubric, BundleUnreadable}

\* What one docker run does (a docker binary is installed): subprocess.run
\* raises (timeout), no report.json is written and the student's output echoes
\* a marker phrase, or a report is written and parsed, with the score it
\* leads to.
SandboxOutcomes == {"timeout", "echo", "report0", "report100"}

\* The tuple _run_grader returns (report, stderr), with what the model observes
\* of the call: whether docker run was started and whether the digest of the
\* bytes was compared with the expected hash and found equal.
Returned(report, stderr, sandbox, verified) ==
    [raised |-> FALSE, report |-> report, stderr |-> stderr, sandbox |-> sandbox,
     verified |-> verified]
\* The report, reduced to the score _build_grade_feedback derives from it.
Report(score) == [none |-> FALSE, score |-> score]
\* report is None
NoReport == [none |-> TRUE, score |-> NoScore]
\* The call ended in an exception instead.
Raised ==
    [raised |-> TRUE, report |-> NoReport, stderr |-> <<>>, sandbox |-> FALSE,
     verified |-> FALSE]

\* if expected_bundle_sha256: ... if digest != expected_bundle_sha256: return
HashGate(bytes, expected) == expected # NoHash /\ bytes.digest # expected

TestTargetExists(fs) ==
    (Destination \o <<"tests">>) \in (fs.dirs \cup fs.files)

\* docker run and what follows it
RunSandbox(sb, verified) ==
    CASE sb = "timeout" -> Returned(NoReport, <<"Command timed out">>, TRUE, verified)
      [] sb = "echo" ->
           Returned(NoReport, <<"exit=1 stdout= stderr=", "BUNDLE SHA256 MISMATCH">>, TRUE, verified)
      [] sb = "report0" -> Returned(Report(0), <<>>, TRUE, verified)
      [] OTHER -> Returned(Report(100), <<>>, TRUE, verified)

\* Variant: the sandbox is started without extracting or looking for tests.
RunGraderFromBundleBytes_NoExtractGate(bytes, expected, sb) ==
    LET verified == expected # NoHash /\ bytes.digest = expected
    IN  IF HashGate(bytes, expected)
        THEN Returned(NoReport, <<"bundle sha256 mismatch">>, FALSE, FALSE)
        ELSE RunSandbox(sb, verified)
\* _run_grader_from_bundle_bytes
RunGraderFromBundleBytes(bytes, expected, sb) ==
    LET verified == expected # NoHash /\ bytes.digest = expected
        x == SafeExtract(bytes.archive)
    IN  IF HashGate(bytes, expected)
        THEN Returned(NoReport, <<"bundle sha256 mismatch">>, FALSE, FALSE)
        ELSE IF x.err # NULL
        THEN Returned(NoReport, <<"bundle extract failed", x.err>>, FALSE, verified)
        ELSE IF ~TestTargetExists(x.fs)
        THEN Returned(NoReport, <<"bundle missing test target", "tests">>, FALSE, verified)
        ELSE IF bytes.rubric = "malformed" THEN Raised
        ELSE RunSandbox(sb, verified)

\* _run_grader: storage.read_bundle raises when the file cannot be read.
RunGrader(bundle, sb) ==
    IF ~bundle.bytes.readable THEN Raised
    ELSE RunGraderFromBundleBytes(bundle.bytes, bundle.expected, sb)

\* ------------------------------------------------------------------ state
VARIABLES
    status,     \* Submission.status per submission id (NONE: no row yet)
    bundle,     \* the bundle each submission resolves to (snapshot or version)
    queue,      \* the rq "grading" queue: submission ids of the jobs waiting
    enq,        \* jobs ever enqueued
    runSeq,     \* the last id the grade_runs sequence gave out
    gradeRuns,  \* grade_runs per submission: committed rows, and the newest
    grades,     \* the grades table in id order
    wk,         \* per worker: the job it executes and where that job stands
    escaped,    \* submissions a job of which ended in an exception
    ex,         \* an extraction under way (SpecExtract)
    wd,         \* the clock and the times the watchdog's query turns on
    adm,        \* admission control seen in numbers (SpecAdmission)
    sf,         \* a report being scored (SpecScore)
    fb,         \* two reports and the feedback built from each (SpecFeedback)
    exam,       \* an exam, one submission to it and its grading job (SpecExam)
    snap,       \* a problem version, a submission's snapshots, the storage (SpecSnapshot)
    out,        \* one call of the runner: its inputs and what came out (SpecOutput)
    rub         \* a rubric.yaml and the timeout read from it (SpecRubric)

vars ==
    <<status, bundle, queue, enq, runSeq, gradeRuns, grades, wk, escaped, ex, wd, adm, sf, fb, exam, snap, out, rub>>

\* A GradeRun row: score (NoScore: null), feedback_json's error and attempt,
\* and what the model observes of the attempt behind it (docker run started,
\* bundle hash verified).
GradeRun(id, attempt, score, error, sandbox, verified) ==
    [id |-> id, attempt |-> attempt, score |-> score, error |-> error,
     sandbox |-> sandbox, verified |-> verified]

NoRun == GradeRun(0, 0, NoScore, <<>>, FALSE, FALSE)

\* A job's place: idle, loaded (rows read), running (in the attempt loop),
\* upsert (report in hand, Grade selected, commit pending). mem is
\* Submission.status as the job's session holds it, made counts the GradeRuns
\* the job has committed, row is the GradeRun it has flushed but not committed.
Idle ==
    [pc |-> "idle", sub |-> 0, attempt |-> 0, mem |-> NONE, made |-> 0,
     sawGrade |-> FALSE, row |-> NoRun]

\* The clock (seconds, scaled), each row's created_at, the time a job last set
\* the row RUNNING, and worker crashes so far.
WdInit ==
    [now |-> 0, created |-> [s \in Subs |-> 0], started |-> [s \in Subs |-> 0],
     crashes |-> 0]

ExIdle == [phase |-> "none", archive |-> <<>>, idx |-> 0, fs |-> EmptyFs, err |-> NULL]

\* Submission rows of one user, as admission control counts them.
MaxRows == 3
AdmRows == 1..MaxRows
\* No request answered yet, then the status codes of POST /submissions.
NoResponse == [code |-> 0, detail |-> ""]
AdmInit ==
    [rows |-> [r \in AdmRows |-> NONE], queue |-> <<>>, busy |-> <<>>, exams |-> 0,
     resp |-> NoResponse]

\* The tests of a report, by nodeid.
TestIds == {"tests/public/test_a", "tests/hidden/test_b"}
\* weights without an entry for a nodeid
Unweighted == [set |-> FALSE, w |-> 0]
SfIdle ==
    [phase |-> "none", tests |-> <<>>, weights |-> [n \in TestIds |-> Unweighted],
     max_score |-> 0, score |-> NoScore, before |-> NoScore]

\* Nodeids as path segments: a public test, two hidden tests, and a hidden
\* test kept in a directory named public.
FbIds ==
    {<<"tests", "public", "test_a">>, <<"tests", "hidden", "test_b">>,
     <<"tests", "hidden", "test_c">>, <<"tests", "hidden", "public", "test_d">>}
\* No feedback built yet.
NoFeedback ==
    [engine |-> "", docker_exit_code |-> 0, rubric_version |-> 0,
     public |-> [passed |-> 0, total |-> 0, failed_cases |-> <<>>],
     hidden |-> [passed |-> 0, total |-> 0, failed_count |-> 0],
     summary |-> [score |-> NoScore, max_score |-> 0, weighted_passed |-> 0,
                  weighted_total |-> 0]]
NoResult == [score |-> NoScore, feedback |-> NoFeedback]
FbIdle ==
    [phase |-> "none", tests |-> <<>>, other |-> <<>>,
     weights |-> [n \in FbIds |-> Unweighted], max_score |-> 0, exit_code |-> 0,
     result |-> NoResult, otherResult |-> NoResult]

\* A null bundle key, and a null rubric version.
NoKey == 0
NoVersion == 0
\* What a grading job used: the key it read, the hash it expected, the digest
\* of the bytes it read, what the sandbox did, its outcome, and the score,
\* max_score and rubric version it wrote to the Grade when it graded.
NoUse ==
    [done |-> FALSE, bundle_key |-> NoKey, expected |-> NoHash, digest |-> NoHash,
     sandbox |-> "", rubric_version |-> NoVersion, status |-> NONE, score |-> NoScore,
     max_score |-> NoScore]
SnapIdle ==
    [version |-> [bundle_key |-> NoKey, bundle_sha256 |-> NoHash, rubric_version |-> 1,
                  max_score |-> 100],
     submission |-> [bundle_key_snapshot |-> NoKey, bundle_sha256_snapshot |-> NoHash,
                     rubric_version_snapshot |-> NoVersion],
     storage |-> <<NoHash, NoHash>>, jobs |-> 0, use |-> NoUse]

\* What the sandbox does once started: whether docker run completed, the
\* text it printed, its exit code, the state of report.json and the outcome
\* of each test it collected (by position of the member in the archive).
NoSandbox ==
    [launch |-> "completed", stdout |-> <<>>, stderr |-> <<>>, returncode |-> 0,
     report |-> "ok", outcomes |-> <<"passed", "passed">>]
\* The tuple (report, exit_code, stderr, stdout) of the runner; raised: the
\* call ended in an exception instead.
NoReturn ==
    [raised |-> FALSE, report_none |-> TRUE, tests |-> <<>>, exit_code |-> 0,
     stderr |-> <<>>, stdout |-> <<>>]
\* The GradeRun a job attempt adds: its logs and feedback_json["error"].
NoStored == [present |-> FALSE, logs |-> <<>>, error |-> <<>>]
\* The dictionary a public dry run returns.
NoDryRun ==
    [status |-> NONE, docker_exit_code |-> 0, stdout |-> <<>>, stderr |-> <<>>,
     public_feedback |-> [passed |-> 0, total |-> 0, failed_cases |-> <<>>]]
OutIdle ==
    [phase |-> "none", expected |-> NoHash, digest |-> NoHash, archive |-> <<>>,
     fault |-> "none", sandbox |-> NoSandbox, ret |-> NoReturn, run |-> NoStored,
     dry |-> NoDryRun]

\* The value rubric.yaml holds under time_limit_seconds: its kind and, for a
\* number, the number (a float in tenths).
RubricValue(kind, n) == [kind |-> kind, n |-> n]
RubIdle == [phase |-> "none", value |-> RubricValue("nofile", 0), ceiling |-> 30, timeout |-> 0]

\* Questions of the exam.
NQuestions == 2
Questions == 1..NQuestions
\* grading_feedback_json is None: the keys the model follows, all absent.
NoExamFeedback ==
    [present |-> FALSE, mode |-> "", source |-> "", is_correct |-> FALSE,
     fallback_used |-> FALSE, fallback_reason_code |-> "", llm_error |-> <<>>,
     needs_review |-> FALSE, review_reason_code |-> "", verdict |-> "",
     appeals |-> <<>>, appeal_pending |-> FALSE]
\* An exam_answers row: grading_status, grading_score and grading_max_score
\* (None: NULL, NoScore) and grading_feedback_json.
NoAnswer ==
    [status |-> NULL, score |-> NoScore, max_score |-> NoScore, feedback |-> NoExamFeedback]
\* No call of the model made.
NoCall == [called |-> FALSE, ok |-> FALSE, is_correct |-> FALSE, error |-> <<>>]
\* A grading job that is not running.
JobIdle ==
    [phase |-> "idle", targets |-> <<>>, next |-> 1, manual_review_pending |-> 0,
     appeals |-> [q \in Questions |-> <<>>], rows |-> [q \in Questions |-> NoAnswer],
     llm |-> [q \in Questions |-> NoCall], failed_count |-> 0]
ExamIdle ==
    [question |-> [q \in Questions |-> [type |-> "subjective", key |-> <<>>]],
     text |-> [q \in Questions |-> <<>>],
     results_published |-> FALSE,
     sub |-> [status |-> NONE, results_published |-> FALSE],
     answers |-> [q \in Questions |-> NoAnswer],
     jobs |-> 0, job |-> JobIdle, delivered |-> 0, appealed |-> 0]

Init ==
    /\ status = [s \in Subs |-> NONE]
    /\ bundle = [s \in Subs |-> BundleGood]
    /\ queue = <<>>
    /\ enq = 0
    /\ runSeq = 0
    /\ gradeRuns = [s \in Subs |-> [count |-> 0, newest |-> NoRun]]
    /\ grades = <<>>
    /\ wk = [w \in Workers |-> Idle]
    /\ escaped = {}
    /\ ex = ExIdle
    /\ wd = WdInit
    /\ adm = AdmInit
    /\ fb = FbIdle
    /\ exam = ExamIdle
    /\ snap = SnapIdle
    /\ out = OutIdle
    /\ rub = RubIdle
    /\ sf = SfIdle

\* attempts = max(GRADING_RETRY_MAX_ATTEMPTS, 1)
Attempts == Max(GRADING_RETRY_MAX_ATTEMPTS, 1)

\* What a commit does to Submission.status. The session keeps its objects
\* loaded across commits (expire_on_commit=False), so assigning the value the
\* object already holds changes nothing and no UPDATE is issued.
WriteStatus(st, s, mem, new) == IF new = mem THEN st ELSE [st EXCEPT ![s] = new]

\* Rows of the submissions table.
Submitted == {s \in Subs : status[s] # NONE}

ActiveCount == Cardinality({s \in Subs : status[s] \in {QUEUED, RUNNING}})

Grade(s, score) == [sub |-> s, score |-> score]

HasGrade(s) == \E i \in 1..Len(grades) : grades[i].sub = s

\* A committed GradeRun joins the table: one more row, and the newest by id.
AddRun(runs, s, row) ==
    [runs EXCEPT ![s] = [count |-> @.count + 1,
                         newest |-> IF row.id > @.newest.id THEN row ELSE @.newest]]

\* ---------------------------------------------------------------- actions
\* POST /submissions: admission control, the new row (ids are given out in
\* order), its job.
Submit(s, b) ==
    /\ status[s] = NONE
    /\ \A t \in Subs : t < s => status[t] # NONE
    /\ enq < MaxJobs
    /\ Len(queue) < SUBMISSION_QUEUE_MAX_DEPTH
    /\ ActiveCount < SUBMISSION_MAX_ACTIVE_PER_USER
    /\ status' = [status EXCEPT ![s] = QUEUED]
    /\ bundle' = [bundle EXCEPT ![s] = b]
    /\ queue' = Append(queue, s)
    /\ enq' = enq + 1
    /\ wd' = [wd EXCEPT !.created[s] = wd.now]
    /\ UNCHANGED <<runSeq, gradeRuns, grades, wk, escaped, ex, adm, sf, fb, exam, snap, out, rub>>

\* A worker takes the job at the head of the queue and the job loads its
\* submission (and the problem version, which the foreign key keeps present).
\* Which idle worker takes it is immaterial: the first one does.
Dequeue(w) ==
    /\ wk[w].pc = "idle"
    /\ \A v \in Workers : v < w => wk[v].pc # "idle"
    /\ queue # <<>>
    /\ LET s == Head(queue)
       IN  wk' = [wk EXCEPT ![w] =
                    IF status[s] = NONE THEN Idle
                    ELSE [Idle EXCEPT !.pc = "loaded", !.sub = s, !.mem = status[s]]]
    /\ queue' = Tail(queue)
    /\ UNCHANGED <<status, bundle, enq, runSeq, gradeRuns, grades, escaped, ex, wd, adm, sf, fb, exam, snap, out, rub>>

\* No bundle configured: FAILED and return. Otherwise RUNNING, and on to the
\* first attempt.
Begin(w) ==
    /\ wk[w].pc = "loaded"
    /\ LET s == wk[w].sub
       IN  IF ~bundle[s].key
           THEN /\ status' = WriteStatus(status, s, wk[w].mem, FAILED)
                /\ wk' = [wk EXCEPT ![w] = Idle]
                /\ UNCHANGED wd
           ELSE /\ status' = WriteStatus(status, s, wk[w].mem, RUNNING)
                /\ wk' = [wk EXCEPT ![w].pc = "running", ![w].attempt = 1,
                                    ![w].mem = RUNNING]
                /\ wd' = [wd EXCEPT !.started[s] = wd.now]
    /\ UNCHANGED <<bundle, queue, enq, runSeq, gradeRuns, grades, escaped, ex, adm, sf, fb, exam, snap, out, rub>>

\* One pass of the attempt loop up to its commit (a failed attempt) or up to
\* the SELECT of the Grade (a report): _run_grader, the GradeRun, retry or not.
Attempt(w) ==
    /\ wk[w].pc = "running"
    /\ \E sb \in SandboxOutcomes :
         LET s == wk[w].sub
             attempt == wk[w].attempt
             r == RunGrader(bundle[s], sb)
             row == GradeRun(runSeq + 1, attempt, r.report.score, r.stderr,
                             r.sandbox, r.verified)
             should_retry == IsRetryable(r.stderr) /\ attempt < Attempts
         IN  IF r.raised
             THEN /\ wk' = [wk EXCEPT ![w] = Idle]
                  /\ escaped' = escaped \cup {s}
                  /\ UNCHANGED <<status, runSeq, gradeRuns>>
             ELSE IF r.report.none
             THEN /\ runSeq' = runSeq + 1
                  /\ gradeRuns' = AddRun(gradeRuns, s, row)
                  /\ IF should_retry
                     THEN /\ status' = WriteStatus(status, s, wk[w].mem, RUNNING)
                          /\ wk' = [wk EXCEPT ![w].attempt = attempt + 1,
                                              ![w].made = @ + 1]
                     ELSE /\ status' = WriteStatus(status, s, wk[w].mem, FAILED)
                          /\ wk' = [wk EXCEPT ![w] = Idle]
                  /\ UNCHANGED escaped
             ELSE \* the SELECT of the Grade flushes the GradeRun: it has its
                  \* id, and is not committed yet
                  /\ runSeq' = runSeq + 1
                  /\ wk' = [wk EXCEPT ![w].pc = "upsert", ![w].sawGrade = HasGrade(s),
                                      ![w].row = row]
                  /\ UNCHANGED <<status, gradeRuns, escaped>>
    /\ UNCHANGED <<bundle, queue, enq, grades, ex, wd, adm, sf, fb, exam, snap, out, rub>>

\* The Grade found by the SELECT is updated, or a new one inserted; the unique
\* index on grades.submission_id refuses a second row.
UpsertGrade(gs, s, saw, score) ==
    IF saw
    THEN [ok |-> TRUE, grades |-> [i \in 1..Len(gs) |->
                                     IF gs[i].sub = s THEN Grade(s, score) ELSE gs[i]]]
    ELSE IF \E i \in 1..Len(gs) : gs[i].sub = s
    THEN [ok |-> FALSE, grades |-> gs]
    ELSE [ok |-> TRUE, grades |-> Append(gs, Grade(s, score))]

\* The commit of a successful attempt: Grade, GRADED, the GradeRun. An
\* IntegrityError rolls all of it back and leaves the job.
CommitGrade(w) ==
    /\ wk[w].pc = "upsert"
    /\ LET s == wk[w].sub
           up == UpsertGrade(grades, s, wk[w].sawGrade, wk[w].row.score)
       IN  IF up.ok
           THEN /\ grades' = up.grades
                /\ gradeRuns' = AddRun(gradeRuns, s, wk[w].row)
                /\ status' = WriteStatus(status, s, wk[w].mem, GRADED)
                /\ UNCHANGED escaped
           ELSE /\ escaped' = escaped \cup {s}
                /\ UNCHANGED <<grades, gradeRuns, status>>
    /\ wk' = [wk EXCEPT ![w] = Idle]
    /\ UNCHANGED <<bundle, queue, enq, runSeq, ex, wd, adm, sf, fb, exam, snap, out, rub>>

\* RUNNING submissions created before the cutoff, lowest ids first, at most
\* max_requeue of them.
RECURSIVE FirstIds(_, _)
FirstIds(S, n) ==
    IF n = 0 \/ S = {} THEN <<>>
    ELSE LET m == CHOOSE x \in S : \A y \in S : x <= y
         IN  <<m>> \o FirstIds(S \ {m}, n - 1)

\* Rows are created in id order, so those created before the cutoff are the
\* ids up to some k; the caller's stale_seconds decides which.
StaleIds(k) == FirstIds({s \in Subs : status[s] = RUNNING /\ s <= k}, MAX_REQUEUE)

\* POST /admin/watchdog/requeue-stale: requeue_stale_running_submissions sets
\* the stale submissions QUEUED, then one job is enqueued for each.
RequeueStale(k) ==
    /\ StaleIds(k) # <<>>
    /\ enq + Len(StaleIds(k)) <= MaxJobs
    /\ status' = [s \in Subs |->
                    IF \E i \in 1..Len(StaleIds(k)) : StaleIds(k)[i] = s THEN QUEUED ELSE status[s]]
    /\ queue' = queue \o StaleIds(k)
    /\ enq' = enq + Len(StaleIds(k))
    /\ UNCHANGED <<bundle, runSeq, gradeRuns, grades, wk, escaped, ex, wd, adm, sf, fb, exam, snap, out, rub>>

\* The admin regrade of a finished submission: back to QUEUED, a new job.
Regrade(s) ==
    /\ status[s] \in {GRADED, FAILED}
    /\ enq < MaxJobs
    /\ status' = [status EXCEPT ![s] = QUEUED]
    /\ queue' = Append(queue, s)
    /\ enq' = enq + 1
    /\ UNCHANGED <<bundle, runSeq, gradeRuns, grades, wk, escaped, ex, wd, adm, sf, fb, exam, snap, out, rub>>

Next ==
    \/ \E s \in Subs, b \in Bundles : Submit(s, b)
    \/ \E w \in Workers : Dequeue(w)
    \/ \E w \in Workers : Begin(w)
    \/ \E w \in Workers : Attempt(w)
    \/ \E w \in Workers : CommitGrade(w)
    \/ \E k \in Subs : RequeueStale(k)
    \/ \E s \in Subs : Regrade(s)

Spec == Init /\ [][Next]_vars

\* --------------------------------------------------- the extractor, stepwise
\* _safe_extract_zip_bytes on every archive of the family: the checks made
\* before anything is written, then one member per step.
InitExtract ==
    /\ status = [s \in Subs |-> NONE]
    /\ bundle = [s \in Subs |-> BundleGood]
    /\ queue = <<>>
    /\ enq = 0
    /\ runSeq = 0
    /\ gradeRuns = [s \in Subs |-> [count |-> 0, newest |-> NoRun]]
    /\ grades = <<>>
    /\ wk = [w \in Workers |-> Idle]
    /\ escaped = {}
    /\ wd = WdInit
    /\ adm = AdmInit
    /\ fb = FbIdle
    /\ exam = ExamIdle
    /\ snap = SnapIdle
    /\ out = OutIdle
    /\ rub = RubIdle
    /\ sf = SfIdle
    /\ ex \in {[ExIdle EXCEPT !.phase = "scan", !.archive = a] : a \in Archives}

\* The grading pipeline with its clock and the extraction.
grading == <<status, bundle, queue, enq, runSeq, gradeRuns, grades, wk, escaped, ex, wd>>

\* Everything but the clock.
pipelineRows ==
    <<status, bundle, queue, enq, runSeq, gradeRuns, grades, wk, escaped, ex, adm, sf, fb, exam, snap, out, rub>>

\* Everything but the extraction.
pipeline == <<status, bundle, queue, enq, runSeq, gradeRuns, grades, wk, escaped, wd, adm, sf, fb, exam, snap, out, rub>>

ExtractScan ==
    /\ ex.phase = "scan"
    /\ LET pre == PreCheck(ex.archive)
       IN  ex' = IF pre # NULL THEN [ex EXCEPT !.phase = "done", !.err = pre]
                 ELSE IF ex.archive = <<>> THEN [ex EXCEPT !.phase = "done"]
                 ELSE [ex EXCEPT !.phase = "write", !.idx = 1]
    /\ UNCHANGED pipeline

ExtractNext ==
    /\ ex.phase = "write"
    /\ LET r == ExtractMember(ex.fs, ex.archive[ex.idx])
       IN  ex' = IF r.err # NULL THEN [ex EXCEPT !.phase = "done", !.err = r.err]
                 ELSE IF ex.idx = Len(ex.archive)
                 THEN [ex EXCEPT !.phase = "done", !.fs = r.fs]
                 ELSE [ex EXCEPT !.idx = @ + 1, !.fs = r.fs]
    /\ UNCHANGED pipeline

NextExtract == ExtractScan \/ ExtractNext

SpecExtract == InitExtract /\ [][NextExtract]_vars

\* ------------------------------------------------ the watchdog, with time
\* The pipeline with a clock: rows carry created_at, the watchdog's cutoff is
\* now - threshold, and a worker may die in the middle of a job.
MaxTime == 3
\* Worker crashes followed.
MaxCrashes == 1
\* GradeRun ids given out after which the watchdog is no longer run.
MaxRuns == 1
\* GRADING_STUCK_TIMEOUT_SECONDS (from the environment, scaled down) and the
\* stale_seconds a caller may pass: none, or a shorter one.
GRADING_STUCK_TIMEOUT_SECONDS == 2
StaleSeconds == {0, 1}
\* max_requeue as a caller may pass it.
MaxRequeues == {0, 1, MAX_REQUEUE}

Advance ==
    /\ wd.now < MaxTime
    /\ wd' = [wd EXCEPT !.now = @ + 1]
    /\ UNCHANGED pipelineRows

\* threshold_seconds = max(int(stale_seconds or GRADING_STUCK_TIMEOUT_SECONDS), 1)
ThresholdSeconds(stale_seconds) ==
    Max(IF stale_seconds = 0 THEN GRADING_STUCK_TIMEOUT_SECONDS ELSE stale_seconds, 1)

\* Variant: the query without its created_at condition.
StaleBefore_AnyRunning(cutoff, max_requeue) ==
    FirstIds({s \in Submitted : status[s] = RUNNING}, max_requeue)
\* The query: RUNNING rows created before the cutoff, by id, limited.
StaleBefore(cutoff, max_requeue) ==
    FirstIds({s \in Submitted : status[s] = RUNNING /\ wd.created[s] < cutoff}, max_requeue)

\* requeue_stale_running_submissions, then the endpoint's enqueue of each id.
Sweep(stale_seconds, max_requeue) ==
    LET threshold == ThresholdSeconds(stale_seconds)
        ids == StaleBefore(wd.now - threshold, max_requeue)
    IN  /\ runSeq < MaxRuns
        /\ Len(queue) + Len(ids) <= MaxJobs
        /\ status' = [s \in Subs |->
                        IF \E i \in 1..Len(ids) : ids[i] = s THEN QUEUED ELSE status[s]]
        /\ queue' = queue \o ids
        /\ UNCHANGED <<bundle, enq, runSeq, gradeRuns, grades, wk, escaped, ex, wd, adm, sf, fb, exam, snap, out, rub>>

\* The worker process dies in the attempt loop: its job is gone, what it had
\* not committed is rolled back, and rq starts a fresh worker.
Crash(w) ==
    /\ wk[w].pc \in {"running", "upsert"}
    /\ wd.crashes < MaxCrashes
    /\ wk' = [wk EXCEPT ![w] = Idle]
    /\ wd' = [wd EXCEPT !.crashes = @ + 1]
    /\ UNCHANGED <<status, bundle, queue, enq, runSeq, gradeRuns, grades, escaped, ex, adm, sf, fb, exam, snap, out, rub>>

\* Bundles followed here: one that grades, one whose file cannot be read.
WatchdogBundles == {BundleGood, BundleUnreadable}

NextWatchdog ==
    \/ \E s \in Subs, b \in WatchdogBundles : Submit(s, b)
    \/ \E w \in Workers : Dequeue(w)
    \/ \E w \in Workers : Begin(w)
    \/ \E w \in Workers : Attempt(w)
    \/ \E w \in Workers : CommitGrade(w)
    \/ Advance
    \/ \E ss \in StaleSeconds, mr \in MaxRequeues : Sweep(ss, mr)
    \/ \E w \in Workers : Crash(w)

SpecWatchdog == Init /\ [][NextWatchdog]_vars

\* Whatever worker w can do next: take a job, or go on with the one it has.
WorkerStep(w) == Dequeue(w) \/ Begin(w) \/ Attempt(w) \/ CommitGrade(w)

\* WorkerStep(w) can be taken: w holds a job, or is the worker that takes the
\* next one and there is one.
WorkerCanStep(w) ==
    \/ wk[w].pc # "idle"
    \/ queue # <<>> /\ \A v \in Workers : v < w => wk[v].pc # "idle"

\* Fair scheduling: the clock runs, the watchdog keeps being run with its
\* defaults (stale_seconds and max_requeue not given), and a worker that can
\* take a job or go on with the one it has does so (weak fairness of
\* WorkerStep(w), with its enabling condition written out).
SpecWatchdogFair ==
    /\ SpecWatchdog
    /\ WF_vars(Advance)
    /\ WF_vars(Sweep(0, MAX_REQUEUE))
    /\ \A w \in Workers : []<>(~WorkerCanStep(w)) \/ []<><<WorkerStep(w)>>_vars

\* ------------------------------------------------------ admission control
\* The grading queue and one user's submission rows, as POST /submissions
\* counts them: a job is the id of its row, or ExamJob for the grading job of
\* an exam submission, which shares the queue.
ExamJob == 0
\* Exam grading jobs an admin enqueues.
MaxExamJobs == 1
\* Jobs the queue is followed up to.
AdmQueueCap == 3

\* grading_queue.count
QueueDepth(a) == Len(a.queue)

\* The user's submissions in QUEUED or RUNNING.
AdmActive(a) == Cardinality({r \in AdmRows : a.rows[r] \in {QUEUED, RUNNING}})

Response(code, detail) == [code |-> code, detail |-> detail]

\* Variant: no look at the depth of the queue.
AdmissionError_NoDepthCheck(a) ==
    IF AdmActive(a) >= SUBMISSION_MAX_ACTIVE_PER_USER THEN "active submissions" ELSE ""
\* The admission checks of POST /submissions, in the order its tests show:
\* the depth of the queue, then the user's active submissions.
AdmissionError(a) ==
    IF QueueDepth(a) >= SUBMISSION_QUEUE_MAX_DEPTH THEN "queue"
    ELSE IF AdmActive(a) >= SUBMISSION_MAX_ACTIVE_PER_USER THEN "active submissions"
    ELSE ""

\* POST /submissions: 429 with the reason, or the new row and its job.
AdmSubmit ==
    /\ \E r \in AdmRows : adm.rows[r] = NONE
    /\ LET r == CHOOSE r \in AdmRows :
                  adm.rows[r] = NONE /\ \A q \in AdmRows : q < r => adm.rows[q] # NONE
           err == AdmissionError(adm)
       IN  adm' = IF err # "" THEN [adm EXCEPT !.resp = Response(429, err)]
                  ELSE [adm EXCEPT !.rows[r] = QUEUED, !.queue = Append(@, r),
                                   !.resp = Response(200, "")]
    /\ UNCHANGED <<grading, sf, fb, exam, snap, out, rub>>

\* A worker takes the job at the head of the queue; a submission's job loads
\* its row.
AdmDequeue ==
    /\ adm.queue # <<>>
    /\ LET j == Head(adm.queue)
       IN  IF j = ExamJob
           THEN adm' = [adm EXCEPT !.queue = Tail(@)]
           ELSE /\ Len(adm.busy) < Cardinality(Workers)
                /\ adm' = [adm EXCEPT !.queue = Tail(@),
                                      !.busy = Append(@, [row |-> j, pc |-> "loaded"])]
    /\ UNCHANGED <<grading, sf, fb, exam, snap, out, rub>>

\* The job commits RUNNING, whatever status it found.
AdmBegin(i) ==
    /\ i \in DOMAIN adm.busy
    /\ adm.busy[i].pc = "loaded"
    /\ adm' = [adm EXCEPT !.rows[adm.busy[i].row] = RUNNING, !.busy[i].pc = "running"]
    /\ UNCHANGED <<grading, sf, fb, exam, snap, out, rub>>

Without(q, i) == SubSeq(q, 1, i - 1) \o SubSeq(q, i + 1, Len(q))

\* The job ends: GRADED, FAILED, or an exception that leaves the row as it is.
AdmFinish(i, outcome) ==
    /\ i \in DOMAIN adm.busy
    /\ adm.busy[i].pc = "running"
    /\ adm' = [adm EXCEPT !.rows[adm.busy[i].row] = IF outcome = "raise" THEN @ ELSE outcome,
                          !.busy = Without(@, i)]
    /\ UNCHANGED <<grading, sf, fb, exam, snap, out, rub>>

\* POST /admin/watchdog/requeue-stale: the RUNNING rows old enough (those up
\* to id k) go back to QUEUED and a job is enqueued for each.
AdmSweep(k) ==
    LET ids == FirstIds({r \in AdmRows : adm.rows[r] = RUNNING /\ r <= k}, MAX_REQUEUE)
    IN  /\ ids # <<>>
        /\ Len(adm.queue) + Len(ids) <= AdmQueueCap
        /\ adm' = [adm EXCEPT
                     !.rows = [r \in AdmRows |->
                                 IF \E n \in 1..Len(ids) : ids[n] = r THEN QUEUED ELSE @[r]],
                     !.queue = @ \o ids]
        /\ UNCHANGED <<grading, sf, fb, exam, snap, out, rub>>

\* POST /admin/grading/exam-submissions/{id}/enqueue (force, or the exam
\* submission is not QUEUED or RUNNING): its job joins the grading queue.
AdmExamEnqueue ==
    /\ adm.exams < MaxExamJobs
    /\ Len(adm.queue) < AdmQueueCap
    /\ adm' = [adm EXCEPT !.queue = Append(@, ExamJob), !.exams = @ + 1]
    /\ UNCHANGED <<grading, sf, fb, exam, snap, out, rub>>

NextAdmission ==
    \/ AdmSubmit
    \/ AdmDequeue
    \/ \E i \in 1..Cardinality(Workers) : AdmBegin(i)
    \/ \E i \in 1..Cardinality(Workers), o \in {GRADED, FAILED, "raise"} : AdmFinish(i, o)
    \/ \E k \in AdmRows : AdmSweep(k)
    \/ AdmExamEnqueue

SpecAdmission == Init /\ [][NextAdmission]_vars

\* ------------------------------------------------------------ rubric scorer
\* Tests in a report.
MaxTests == 2

\* One entry of report["tests"]: its nodeid and whether outcome == "passed".
Test(nodeid, passed) == [nodeid |-> nodeid, passed |-> passed]

Reports == SeqsUpTo({Test(n, p) : n \in TestIds, p \in BOOLEAN}, MaxTests)

\* Weights a rubric may give a test, and the rubrics over the tests.
WeightValues == {0 - 1, 0, 2}
WeightMaps ==
    [TestIds -> {Unweighted} \cup {[set |-> TRUE, w |-> v] : v \in WeightValues}]

\* max_score of the problem version (not negative).
MaxScores == {0, 1, 3, 100}

\* int(weights.get(nodeid, 1))
WeightOf(weights, nodeid) == IF weights[nodeid].set THEN weights[nodeid].w ELSE 1

\* Variant: the weight as the rubric gives it.
Counted_AsGiven(weight) == weight
\* max(weight, 0)
Counted(weight) == Max(weight, 0)

\* The loop over the tests: total_weight and passed_weight.
RECURSIVE Tally(_, _, _, _, _)
Tally(tests, weights, i, total_weight, passed_weight) ==
    IF i > Len(tests)
    THEN [total_weight |-> total_weight, passed_weight |-> passed_weight]
    ELSE LET weight == WeightOf(weights, tests[i].nodeid)
         IN  Tally(tests, weights, i + 1, total_weight + Counted(weight),
                   IF tests[i].passed THEN passed_weight + Counted(weight)
                   ELSE passed_weight)

\* Variant: the quotient cut off.
Round_Down(n, d) == n \div d
\* round(n / d) for d > 0: the nearest integer, a tie going to the even one.
\* (The program rounds the float max_score * (passed_weight / total_weight);
\* for the values followed here the float is near enough to the quotient.)
Round(n, d) ==
    LET q == n \div d
        r == n % d
    IN  IF 2 * r > d \/ (2 * r = d /\ q % 2 = 1) THEN q + 1 ELSE q

\* Variant: a total weight of 1 is taken for none.
BuildGradeFeedback_NoUnitTotal(tests, weights, max_score) ==
    LET t == Tally(tests, weights, 1, 0, 0)
    IN  IF t.total_weight <= 1 THEN 0
        ELSE Round(max_score * t.passed_weight, t.total_weight)
\* _build_grade_feedback: the score
BuildGradeFeedback(tests, weights, max_score) ==
    LET t == Tally(tests, weights, 1, 0, 0)
    IN  IF t.total_weight <= 0 THEN 0
        ELSE Round(max_score * t.passed_weight, t.total_weight)

InitScore ==
    /\ status = [s \in Subs |-> NONE]
    /\ bundle = [s \in Subs |-> BundleGood]
    /\ queue = <<>>
    /\ enq = 0
    /\ runSeq = 0
    /\ gradeRuns = [s \in Subs |-> [count |-> 0, newest |-> NoRun]]
    /\ grades = <<>>
    /\ wk = [w \in Workers |-> Idle]
    /\ escaped = {}
    /\ ex = ExIdle
    /\ wd = WdInit
    /\ adm = AdmInit
    /\ fb = FbIdle
    /\ exam = ExamIdle
    /\ snap = SnapIdle
    /\ out = OutIdle
    /\ rub = RubIdle
    /\ sf \in {[SfIdle EXCEPT !.phase = "report", !.tests = t, !.weights = w,
                               !.max_score = m] :
                 t \in Reports, w \in WeightMaps, m \in MaxScores}

\* The report is scored.
Score ==
    /\ sf.phase = "report"
    /\ sf' = [sf EXCEPT !.phase = "scored",
                        !.score = BuildGradeFeedback(sf.tests, sf.weights, sf.max_score)]
    /\ UNCHANGED <<grading, adm, fb, exam, snap, out, rub>>

\* The same run with test i passing instead of failing, scored again.
Rescore(i) ==
    /\ sf.phase = "scored"
    /\ i \in 1..Len(sf.tests)
    /\ ~sf.tests[i].passed
    /\ LET tests == [sf.tests EXCEPT ![i].passed = TRUE]
       IN  sf' = [sf EXCEPT !.tests = tests, !.before = sf.score,
                            !.score = BuildGradeFeedback(tests, sf.weights, sf.max_score)]
    /\ UNCHANGED <<grading, adm, fb, exam, snap, out, rub>>

NextScore == Score \/ \E i \in 1..MaxTests : Rescore(i)

SpecScore == InitScore /\ [][NextScore]_vars

\* ================================================================== claims
\* The step is one that worker w's job takes.
JobStep(w) == wk[w].pc # "idle" /\ wk'[w] # wk[w]

\* The step commits a new GradeRun of submission s.
CommitsRun(s) == gradeRuns'[s].count = gradeRuns[s].count + 1

\* The step commits the GradeRun of an attempt of submission s that failed.
CommitsFailure(s) ==
    /\ CommitsRun(s)
    /\ runSeq' = runSeq + 1
    /\ gradeRuns'[s].newest.id = runSeq'
    /\ gradeRuns'[s].newest.score = NoScore

\* The message holds one of the three marker phrases as written.
HoldsMarker(msg) ==
    \E i \in 1..Len(msg) :
        msg[i] \in {"bundle sha256 mismatch", "bundle extract failed",
                    "bundle missing test target"}

\* C1: an attempt that fails with a reason holding a non-retryable marker
\* commits exactly one GradeRun, is the job's last attempt, and leaves the
\* submission FAILED.
C1_NonRetryableFailsOnce ==
    [][\A w \in Workers :
         LET s == wk[w].sub
         IN  ( /\ JobStep(w)
               /\ wk[w].pc = "running"
               /\ CommitsFailure(s)
               /\ HoldsMarker(gradeRuns'[s].newest.error) )
             => /\ gradeRuns'[s].count = gradeRuns[s].count + 1
                /\ gradeRuns'[s].newest.attempt = wk[w].attempt
                /\ wk'[w].pc = "idle"
                /\ status'[s] = FAILED]_vars

\* A first attempt failed on a hash mismatch: one GradeRun, FAILED, job over.
C1_Witness ==
    \E s \in Subs :
        /\ status[s] = FAILED
        /\ gradeRuns[s].count = 1
        /\ gradeRuns[s].newest.attempt = 1
        /\ gradeRuns[s].newest.error = <<"bundle sha256 mismatch">>
        /\ \A w \in Workers : wk[w].pc = "idle"

\* C2: a job whose attempt k returns a report after k-1 retryable failures has
\* committed exactly k GradeRuns and leaves the submission GRADED; a job whose
\* N attempts all fail has committed N GradeRuns and leaves it FAILED; no job
\* goes beyond attempt N = max(GRADING_RETRY_MAX_ATTEMPTS, 1).
C2_RetryLoopCounts ==
    [][\A w \in Workers :
         LET s == wk[w].sub
             n == Max(GRADING_RETRY_MAX_ATTEMPTS, 1)
         IN  /\ wk'[w].attempt <= n
             /\ (JobStep(w) /\ wk[w].pc = "upsert")
                => /\ CommitsRun(s)
                   /\ wk[w].made + 1 = wk[w].attempt
                   /\ status'[s] = GRADED
             /\ (JobStep(w) /\ wk[w].pc = "running" /\ wk[w].attempt = n
                   /\ wk'[w].pc = "idle" /\ CommitsFailure(s))
                => /\ wk[w].made + 1 = n
                   /\ status'[s] = FAILED]_vars

\* C3: no submission has two jobs executing at once.
C3_OneProcessorPerSubmission ==
    \A s \in Subs : Cardinality({w \in Workers : wk[w].pc # "idle" /\ wk[w].sub = s}) <= 1

\* C4: a job changes a submission's status only along QUEUED->RUNNING,
\* RUNNING->RUNNING, RUNNING->GRADED, RUNNING->FAILED.
C4_JobStatusEdges ==
    [][\A w \in Workers : \A s \in Subs :
         (JobStep(w) /\ status'[s] # status[s])
         => <<status[s], status'[s]>> \in
              {<<QUEUED, RUNNING>>, <<RUNNING, RUNNING>>, <<RUNNING, GRADED>>,
               <<RUNNING, FAILED>>}]_vars

\* Every GradeRun the state shows: the newest committed one of each
\* submission, and the one each job has flushed and not yet committed.
ShownRuns ==
    {gradeRuns[s].newest : s \in Subs} \cup {wk[w].row : w \in Workers}

\* C5: docker run is started only for an attempt whose bundle bytes were
\* hashed and found equal to the expected hash.
C5_SandboxOnlyAfterHashCheck ==
    \A r \in ShownRuns : r.sandbox => r.verified


\* Bundles whose validation fails: the stored bytes do not have the expected
\* hash, the archive holds ../escape.txt, the archive has no tests.
InvalidBundles == {BundleTampered, BundleZipSlip, BundleNoTests}

\* C6: an attempt on a bundle that fails validation starts no sandbox, and its
\* commit leaves the submission FAILED (and ends the job).
C6_InvalidBundleNeverRuns ==
    [][\A w \in Workers :
         LET s == wk[w].sub
         IN  (JobStep(w) /\ wk[w].pc = "running" /\ bundle[s] \in InvalidBundles)
             => /\ CommitsFailure(s)
                /\ ~gradeRuns'[s].newest.sandbox
                /\ wk'[w].pc = "idle"
                /\ status'[s] = FAILED]_vars

\* The zip-slip bundle was rejected by the extractor: FAILED, no sandbox.
C6_Witness ==
    \E s \in Subs :
        /\ bundle[s] = BundleZipSlip
        /\ status[s] = FAILED
        /\ gradeRuns[s].count = 1
        /\ gradeRuns[s].newest.error = <<"bundle extract failed", ErrTraversal>>
        /\ ~gradeRuns[s].newest.sandbox

\* Paths the extraction has created.
Created == (ex.fs.dirs \cup ex.fs.files) \ Prefixes(Destination)

Below(p, d) == Len(p) >= Len(d) /\ SubSeq(p, 1, Len(d)) = d

\* The member's name, normalised, leaves the destination.
Leaves(m) == ~(m.name = <<>> /\ ~m.abs) /\ ~Below(Resolve(Join(Destination, m)), Destination)

FirstLeaving(archive) ==
    CHOOSE i \in 1..Len(archive) :
        Leaves(archive[i]) /\ \A j \in 1..(i - 1) : ~Leaves(archive[j])

\* C7 as claimed: nothing is created outside the destination, and an archive
\* with a member that leaves it ends in the path-traversal error.
C7_TraversalAlwaysReported ==
    /\ \A p \in Created : Below(p, Destination)
    /\ (ex.phase = "done" /\ \E i \in 1..Len(ex.archive) : Leaves(ex.archive[i]))
       => ex.err = ErrTraversal

\* C7, amended: nothing is created outside the destination; an archive with a
\* member that leaves it never extracts to the end, and the error is the
\* path-traversal error whenever the whole-archive checks passed and no
\* earlier member failed to be written.
C7_NoWriteOutside ==
    /\ \A p \in Created : Below(p, Destination)
    /\ (ex.phase = "done" /\ \E i \in 1..Len(ex.archive) : Leaves(ex.archive[i]))
       => /\ ex.err # NULL
          /\ ex.err \notin {ErrTooMany, ErrTooLarge, ErrSymlink, ErrOS}
             => /\ ex.err = ErrTraversal
                /\ ex.idx = FirstLeaving(ex.archive)

\* A file was extracted, then ../escape.txt stopped the extraction.
C7_Witness ==
    /\ ex.phase = "done"
    /\ ex.archive = <<MTests, MEscape>>
    /\ ex.err = ErrTraversal
    /\ (Destination \o <<"tests", "t.py">>) \in ex.fs.files

\* C8: a job never ends in an exception, and when it ends the submission is
\* GRADED or FAILED.
C8_JobEndsTerminal ==
    [][\A w \in Workers :
         (JobStep(w) /\ wk'[w].pc = "idle")
         => /\ escaped' = escaped
            /\ status'[wk[w].sub] \in {GRADED, FAILED}]_vars

\* C9: GRADED goes with a newest GradeRun that has a score, FAILED with a
\* newest GradeRun that exists, has no score and carries the error.
C9_StatusMatchesNewestRun ==
    \A s \in Subs :
        /\ status[s] = GRADED => gradeRuns[s].newest.score # NoScore
        /\ status[s] = FAILED =>
             /\ gradeRuns[s].count > 0
             /\ gradeRuns[s].newest.score = NoScore
             /\ gradeRuns[s].newest.error # <<>>

GradesOf(s) == {i \in 1..Len(grades) : grades[i].sub = s}

\* C10: a submission has at most one Grade, and the commit of a successful
\* attempt goes through and leaves that Grade with the attempt's score.
C10_SingleGradeUpsert ==
    [][/\ \A s \in Subs : Cardinality(GradesOf(s)') <= 1
       /\ \A w \in Workers :
            (JobStep(w) /\ wk[w].pc = "upsert")
            => /\ escaped' = escaped
               /\ \E i \in 1..Len(grades') :
                      /\ grades'[i].sub = wk[w].sub
                      /\ grades'[i].score = wk[w].row.score]_vars

\* The Grade of submission s (there is one).
GradeOf(s) == grades[CHOOSE i \in 1..Len(grades) : grades[i].sub = s]

\* C11: a submission's Grade carries the score (and the feedback derived with
\* it) of the submission's newest GradeRun.
C11_GradeMatchesNewestRun ==
    \A s \in Subs : HasGrade(s) => GradeOf(s).score = gradeRuns[s].newest.score

\* The Grade rows of submission s.
GradeRows(s) == {grades[i] : i \in GradesOf(s)}

\* C12: a GRADED submission keeps its status and its Grade in every step but
\* the admin regrade, which sets it QUEUED (and leaves the Grade alone).
C12_GradedIsImmutable ==
    [][\A s \in Subs :
         status[s] = GRADED
         => \/ status'[s] = QUEUED /\ grades' = grades
            \/ status'[s] = GRADED /\ GradeRows(s)' = GradeRows(s)]_vars

\* The watchdog run with these inputs takes s from RUNNING back to QUEUED.
Reclaims(s, stale_seconds, max_requeue) ==
    /\ Sweep(stale_seconds, max_requeue)
    /\ status[s] = RUNNING
    /\ status'[s] = QUEUED

\* C13: the watchdog resets a submission to QUEUED only if the submission has
\* been RUNNING for longer than the stale threshold of that run; one that a
\* worker marked RUNNING less than the threshold ago is never reclaimed.
C13_ReclaimsOnlyLongRunning ==
    [][\A s \in Subs, ss \in StaleSeconds, mr \in MaxRequeues :
         Reclaims(s, ss, mr) => wd.now - wd.started[s] > ThresholdSeconds(ss)]_vars

\* The clock can still pass the default cutoff of s, and the watchdog is
\* still being run.
WatchdogCanReach(s) ==
    /\ wd.created[s] + ThresholdSeconds(0) < MaxTime
    /\ runSeq < MaxRuns

\* C14: if a worker crashes after marking a submission RUNNING, then under
\* fair scheduling of the watchdog and of the remaining workers the submission
\* eventually reaches GRADED or FAILED.
C14_CrashedJobEventuallyEnds ==
    \A s \in Subs :
      (wd.crashes > 0 /\ status[s] = RUNNING /\ WatchdogCanReach(s))
        ~> (status[s] \in {GRADED, FAILED} \/ ~WatchdogCanReach(s))

\* The rows one watchdog run with these inputs is to reclaim from: RUNNING,
\* created before the cutoff.
StaleRows(stale_seconds) ==
    {s \in Subs : status[s] = RUNNING
                  /\ wd.created[s] < wd.now - ThresholdSeconds(stale_seconds)}

\* The rows whose status the step changes, and the ids it adds to the queue.
StatusChanged == {s \in Subs : status'[s] # status[s]}
Enqueued == SubSeq(queue', Len(queue) + 1, Len(queue'))

Rejects(reason) ==
    /\ adm'.resp = Response(429, reason)
    /\ adm'.rows = adm.rows
    /\ adm'.queue = adm.queue

\* C16: a submit made while the depth of the grading queue is at or above
\* SUBMISSION_QUEUE_MAX_DEPTH is rejected with the backpressure error (429),
\* creates no submission row and enqueues no job.
C16_FullQueueRejects ==
    [][AdmSubmit /\ QueueDepth(adm) >= SUBMISSION_QUEUE_MAX_DEPTH => Rejects("queue")]_vars

\* A submit was turned away for the depth of the queue, while the user was
\* below the limit of active submissions.
C16_Witness ==
    /\ adm.resp = Response(429, "queue")
    /\ QueueDepth(adm) >= SUBMISSION_QUEUE_MAX_DEPTH
    /\ AdmActive(adm) < SUBMISSION_MAX_ACTIVE_PER_USER

\* C17: a submit by a user whose submissions in QUEUED or RUNNING have reached
\* SUBMISSION_MAX_ACTIVE_PER_USER is rejected with the backpressure error (429)
\* and creates no submission; and so no user ever has more active submissions
\* than the limit.
C17_ActiveLimitHolds ==
    /\ [][AdmSubmit /\ AdmActive(adm) >= SUBMISSION_MAX_ACTIVE_PER_USER
            => \E reason \in {"queue", "active submissions"} : Rejects(reason)]_vars
    /\ [](AdmActive(adm) <= SUBMISSION_MAX_ACTIVE_PER_USER)

\* C18: in every reachable state the number of jobs outstanding in the
\* grading queue does not exceed SUBMISSION_QUEUE_MAX_DEPTH, under any
\* sequence of submits, watchdog requeues and admin re-enqueues.
C18_QueueDepthBounded == QueueDepth(adm) <= SUBMISSION_QUEUE_MAX_DEPTH

RECURSIVE SumOver(_, _)
SumOver(f, S) ==
    IF S = {} THEN 0
    ELSE LET x == CHOOSE x \in S : TRUE
         IN  f[x] + SumOver(f, S \ {x})

\* The report in hand: its tests, the passed ones, and each test's weight as
\* the rubric gives it (1 without an entry) and with a negative weight
\* counted as 0.
AllTests == 1..Len(sf.tests)
PassedTests == {i \in AllTests : sf.tests[i].passed}
GivenWeights == [i \in AllTests |-> WeightOf(sf.weights, sf.tests[i].nodeid)]
CountedWeights == [i \in AllTests |-> IF GivenWeights[i] < 0 THEN 0 ELSE GivenWeights[i]]

Abs(n) == IF n < 0 THEN 0 - n ELSE n

\* score is n / d rounded to the nearest integer, a tie to the even one.
IsRounded(score, n, d) ==
    LET gap == Abs(score * d - n)
    IN  2 * gap <= Abs(d) /\ (2 * gap = Abs(d) => score % 2 = 0)

\* score is what the weights give: 0 when they sum to 0.
IsWeightedScore(score, w) ==
    LET total_weight == SumOver(w, AllTests)
        passed_weight == SumOver(w, PassedTests)
    IN  IF total_weight = 0 THEN score = 0
        ELSE IsRounded(score, sf.max_score * passed_weight, total_weight)

\* C19 (as stated): for every report, weight map and max_score >= 0 the score
\* is round(max_score * passed_weight / total_weight), the weights (1 for a
\* test absent from the map) summed over the passed tests and over all tests,
\* and 0 when total_weight is 0.
C19_ScoreIsWeightedRatio ==
    sf.phase = "scored" => IsWeightedScore(sf.score, GivenWeights)

\* C19 (amended): the same, with every negative weight counted as 0 in both
\* sums.
C19_ScoreIsCountedRatio ==
    sf.phase = "scored" => IsWeightedScore(sf.score, CountedWeights)

\* A scored report whose negatively weighted test failed and whose other
\* test passed: all of the counted weight passed, and the score is max_score.
C19_Witness ==
    /\ sf.phase = "scored"
    /\ \E i \in AllTests : GivenWeights[i] < 0 /\ ~sf.tests[i].passed
    /\ PassedTests # {}
    /\ sf.max_score = 100 /\ sf.score = 100

\* C20: for every report and weight map (zero and negative weights included)
\* and max_score >= 0, the score lies in [0, max_score], is 0 when no test
\* passed, and does not go down when a failing test is changed to passing.
C20_ScoreBoundedMonotone ==
    /\ [](sf.phase = "scored"
            => /\ 0 <= sf.score /\ sf.score <= sf.max_score
               /\ PassedTests = {} => sf.score = 0)
    /\ [][\A i \in 1..MaxTests : Rescore(i) => sf'.score >= sf.score]_vars

\* A failing test of a report with a negatively weighted test was changed to
\* passing, and the score went up.
C20_Witness ==
    /\ sf.phase = "scored"
    /\ \E i \in AllTests : GivenWeights[i] < 0
    /\ sf.before >= 0 /\ sf.score > sf.before

\* The report in hand is not empty and every test of it passed.
AllPassed == AllTests # {} /\ PassedTests = AllTests

\* C21 (as stated): for every non-empty report in which every test passed,
\* and for every weight map, the score equals max_score.
C21_AllPassingIsFull ==
    sf.phase = "scored" /\ AllPassed => sf.score = sf.max_score

\* C21 (amended): the same, for the weight maps that give at least one test
\* of the report a positive weight; with none the score is 0.
C21_AllPassingWeightedIsFull ==
    sf.phase = "scored" /\ AllPassed
      => IF \E i \in AllTests : GivenWeights[i] > 0
         THEN sf.score = sf.max_score
         ELSE sf.score = 0

\* Every test passed, one of them carries no positive weight, another does,
\* and the score is the full 100.
C21_Witness ==
    /\ sf.phase = "scored" /\ AllPassed
    /\ \E i \in AllTests : GivenWeights[i] <= 0
    /\ \E i \in AllTests : GivenWeights[i] > 0
    /\ sf.max_score = 100 /\ sf.score = 100


\* ------------------------------------------------- feedback (SpecFeedback)
\* pytest outcomes of a test, and the failure text (longrepr) as characters.
Outcomes == {"passed", "failed"}
Longreprs == {<<"E", "1">>, <<"E", "2">>}
\* One entry of report["tests"] with the keys the feedback reads.
FbTest(nodeid, outcome, longrepr) ==
    [nodeid |-> nodeid, passed |-> outcome = "passed", outcome |-> outcome,
     longrepr |-> longrepr]
FbReports ==
    SeqsUpTo({FbTest(n, o, l) : n \in FbIds, o \in Outcomes, l \in Longreprs}, MaxTests)
FbWeightMaps == [FbIds -> {Unweighted, [set |-> TRUE, w |-> 2]}]

\* "/name/" in nodeid: a segment called name with a segment on either side.
HasSegment(nodeid, name) == \E i \in 2..(Len(nodeid) - 1) : nodeid[i] = name
\* public_tests and hidden_tests
PublicTests(tests) == SelectSeq(tests, LAMBDA t : HasSegment(t.nodeid, "public"))
HiddenTests(tests) == SelectSeq(tests, LAMBDA t : HasSegment(t.nodeid, "hidden"))
\* text[:n]
Clip(text, n) == SubSeq(text, 1, IF Len(text) < n THEN Len(text) ELSE n)
\* public_failed_cases: name, outcome and clipped message of each public test
\* that did not pass.
PublicFailedCases(tests) ==
    LET failed == SelectSeq(PublicTests(tests), LAMBDA t : t.outcome # "passed")
    IN  [i \in 1..Len(failed) |->
           [name |-> failed[i].nodeid, outcome |-> failed[i].outcome,
            message |-> Clip(failed[i].longrepr, 300)]]
\* sum(1 for t in tests if t.get("outcome") == "passed")
PassedCount(tests) == Len(SelectSeq(tests, LAMBDA t : t.outcome = "passed"))

\* _build_grade_feedback: the score and the feedback
GradeFeedback(tests, weights, max_score, exit_code, rubric_version) ==
    LET t == Tally(tests, weights, 1, 0, 0)
        score == BuildGradeFeedback(tests, weights, max_score)
    IN  [score |-> score,
         feedback |->
           [engine |-> "docker-pytest-json-report",
            docker_exit_code |-> exit_code,
            rubric_version |-> rubric_version,
            public |-> [passed |-> PassedCount(PublicTests(tests)),
                        total |-> Len(PublicTests(tests)),
                        failed_cases |-> PublicFailedCases(tests)],
            hidden |-> [passed |-> PassedCount(HiddenTests(tests)),
                        total |-> Len(HiddenTests(tests)),
                        failed_count |-> Len(HiddenTests(tests))
                                           - PassedCount(HiddenTests(tests))],
            summary |-> [score |-> score, max_score |-> max_score,
                         weighted_passed |-> t.passed_weight,
                         weighted_total |-> t.total_weight]]]

\* Two reports that differ at most in the nodeid and longrepr of tests under
\* tests/hidden, test by test with the same outcome and the same weight.
HiddenVariant(tests, other, weights) ==
    /\ Len(other) = Len(tests)
    /\ \A i \in 1..Len(tests) :
         IF HasSegment(tests[i].nodeid, "hidden")
         THEN /\ HasSegment(other[i].nodeid, "hidden")
              /\ other[i].outcome = tests[i].outcome
              /\ WeightOf(weights, other[i].nodeid) = WeightOf(weights, tests[i].nodeid)
         ELSE other[i] = tests[i]

\* The grading pipeline at rest.
GradingIdle ==
    /\ status = [s \in Subs |-> NONE]
    /\ bundle = [s \in Subs |-> BundleGood]
    /\ queue = <<>>
    /\ enq = 0
    /\ runSeq = 0
    /\ gradeRuns = [s \in Subs |-> [count |-> 0, newest |-> NoRun]]
    /\ grades = <<>>
    /\ wk = [w \in Workers |-> Idle]
    /\ escaped = {}
    /\ ex = ExIdle
    /\ wd = WdInit

InitFeedback ==
    /\ GradingIdle
    /\ adm = AdmInit
    /\ sf = SfIdle
    /\ exam = ExamIdle
    /\ snap = SnapIdle
    /\ out = OutIdle
    /\ rub = RubIdle
    /\ \E t \in FbReports, w \in FbWeightMaps, x \in {0, 1} :
         \E o \in {r \in FbReports : HiddenVariant(t, r, w)} :
           fb = [FbIdle EXCEPT !.phase = "reports", !.tests = t, !.other = o,
                               !.weights = w, !.max_score = 100, !.exit_code = x]

\* The feedback of the first report is built.
BuildFirst ==
    /\ fb.phase \in {"reports", "other"}
    /\ fb.result = NoResult
    /\ fb' = [fb EXCEPT !.phase = IF fb.phase = "other" THEN "both" ELSE "first",
                        !.result = GradeFeedback(fb.tests, fb.weights, fb.max_score,
                                                 fb.exit_code, 1)]
    /\ UNCHANGED <<grading, adm, sf, exam, snap, out, rub>>

\* The feedback of the second report is built.
BuildOther ==
    /\ fb.phase \in {"reports", "first"}
    /\ fb.otherResult = NoResult
    /\ fb' = [fb EXCEPT !.phase = IF fb.phase = "first" THEN "both" ELSE "other",
                        !.otherResult = GradeFeedback(fb.other, fb.weights, fb.max_score,
                                                      fb.exit_code, 1)]
    /\ UNCHANGED <<grading, adm, sf, exam, snap, out, rub>>

NextFeedback == BuildFirst \/ BuildOther

SpecFeedback == InitFeedback /\ [][NextFeedback]_vars

\* C22: the hidden part of the feedback has the three counts and nothing
\* else, and two reports that differ only in the names and failure texts of
\* their hidden tests get the same score and the same feedback.
C22_HiddenOnlyCounts ==
    fb.phase = "both"
      => /\ DOMAIN fb.result.feedback.hidden = {"passed", "total", "failed_count"}
         /\ fb.otherResult.score = fb.result.score
         /\ fb.otherResult.feedback = fb.result.feedback


\* ------------------------------------------- answer-key grader (SpecExam)
LLM_GRADING_MODE == "llm_answer_key_v2"
FALLBACK_GRADING_MODE == "answer_key_fallback_v2"

\* A text is the sequence of its words. lower() of a word.
LowerWord(w) == IF w = "A" THEN "a" ELSE w
\* _normalize_eval_text: lower case, one blank between words
NormalizeEvalText(text) == [i \in 1..Len(text) |-> LowerWord(text[i])]
\* _tokenize_eval_text: the set of the words of the normalized text
TokenizeEvalText(text) == {NormalizeEvalText(text)[i] : i \in 1..Len(text)}
\* a in b for two normalized texts
IsInfix(a, b) ==
    \E k \in 0..(Len(b) - Len(a)) : SubSeq(b, k + 1, k + Len(a)) = a
\* "def " in normalized: the word with a blank and so another word after it
HasKeyword(normalized, word) ==
    \E i \in 1..(Len(normalized) - 1) : normalized[i] = word
\* ("def " in answer and "def " in key) or ("import " in answer and "import " in key)
HasCodeShape(normalized_answer, normalized_key) ==
    \/ HasKeyword(normalized_answer, "def") /\ HasKeyword(normalized_key, "def")
    \/ HasKeyword(normalized_answer, "import") /\ HasKeyword(normalized_key, "import")
\* overlap between the tokens of the key and of the answer
Overlap(answer_key_text, answer_text) ==
    Cardinality(TokenizeEvalText(answer_key_text) \cap TokenizeEvalText(answer_text))
\* overlap / max(len(tokens), 1) compared with a bound given in hundredths
RatioAtLeast(overlap, n, hundredths) == 100 * overlap >= hundredths * Max(n, 1)
RatioAtMost(overlap, n, hundredths) == 100 * overlap <= hundredths * Max(n, 1)

\* Texts of errors the call of the model raises, as phrases; and the markers
\* _classify_llm_error looks for that occur in the lowered phrase.
LlmErrors ==
    {<<"status=429", "insufficient_quota">>,
     <<"status=429", "Rate limit reached">>,
     <<"status=403", "You exceeded your current quota">>,
     <<"status=401", "invalid_api_key">>,
     <<"Connection reset">>,
     <<"llm invalid json response">>}
MarkersIn(phrase) ==
    CASE phrase = "status=429" -> {"status=429"}
      [] phrase = "insufficient_quota" -> {"insufficient_quota", "quota"}
      [] phrase = "You exceeded your current quota" ->
           {"exceeded your current quota", "quota"}
      [] phrase = "Rate limit reached" -> {"rate limit"}
      [] phrase = "status=403" -> {"status=403"}
      [] phrase = "status=401" -> {"status=401"}
      [] phrase = "invalid_api_key" -> {"invalid_api_key"}
      [] phrase = "Connection reset" -> {"connection"}
      [] OTHER -> {}
\* marker in lowered
InLowered(raw_error, marker) ==
    \E i \in 1..Len(raw_error) : marker \in MarkersIn(raw_error[i])
AnyInLowered(raw_error, markers) == \E m \in markers : InLowered(raw_error, m)

\* Variant: the authentication markers are looked for first.
ClassifyLlmError_AuthFirst(raw_error) ==
    IF AnyInLowered(raw_error,
                    {"status=401", "status=403", "invalid_api_key", "authentication"})
    THEN "auth"
    ELSE IF AnyInLowered(raw_error, {"status=429", "insufficient_quota",
                                     "exceeded your current quota", "quota"})
    THEN "quota"
    ELSE "unknown"
\* _classify_llm_error: the reason code
ClassifyLlmError(raw_error) ==
    IF AnyInLowered(raw_error, {"status=429", "insufficient_quota",
                                "exceeded your current quota", "quota"})
    THEN "quota"
    ELSE IF AnyInLowered(raw_error,
                         {"status=401", "status=403", "invalid_api_key", "authentication"})
    THEN "auth"
    ELSE IF AnyInLowered(raw_error, {"rate limit", "too many requests"})
    THEN "rate"
    ELSE IF AnyInLowered(raw_error, {"timeout", "timed out", "connection",
                                     "temporarily unavailable"})
    THEN "network"
    ELSE "unknown"

\* Variant: a fallback result is reviewed like any other.
ResolveReviewDecision_FallbackLikeAny(question_type, answer_key_text, answer_text, is_correct, fallback_used) ==
    LET key == Overlap(answer_key_text, answer_text)
        nk == Cardinality(TokenizeEvalText(answer_key_text))
    IN  IF NormalizeEvalText(answer_text) = <<>>
        THEN [needs_review |-> FALSE, review_reason_code |-> ""]
        ELSE IF is_correct /\ ~RatioAtLeast(key, nk, 45)
        THEN [needs_review |-> TRUE, review_reason_code |-> "low_evidence_correct"]
        ELSE [needs_review |-> FALSE, review_reason_code |-> ""]
\* _resolve_review_decision: needs_review and review_reason_code
ResolveReviewDecision(question_type, answer_key_text, answer_text, is_correct, fallback_used) ==
    LET normalized_answer == NormalizeEvalText(answer_text)
        normalized_key == NormalizeEvalText(answer_key_text)
        overlap == Overlap(answer_key_text, answer_text)
        nk == Cardinality(TokenizeEvalText(answer_key_text))
        na == Cardinality(TokenizeEvalText(answer_text))
        Review(code) == [needs_review |-> TRUE, review_reason_code |-> code]
    IN  IF normalized_answer = <<>>
        THEN [needs_review |-> FALSE, review_reason_code |-> ""]
        ELSE IF fallback_used THEN Review("fallback_used")
        ELSE IF /\ question_type = "subjective"
                /\ RatioAtLeast(overlap, nk, 35) /\ RatioAtMost(overlap, nk, 78)
        THEN Review("subjective_borderline")
        ELSE IF /\ question_type = "coding"
                /\ \/ /\ RatioAtLeast(overlap, nk, 30) /\ RatioAtMost(overlap, nk, 80)
                      /\ RatioAtLeast(overlap, na, 25) /\ RatioAtMost(overlap, na, 75)
                   \/ ~HasCodeShape(normalized_answer, normalized_key)
        THEN Review("coding_borderline")
        ELSE IF is_correct /\ ~RatioAtLeast(overlap, nk, 45)
        THEN Review("low_evidence_correct")
        ELSE IF ~is_correct /\ ~RatioAtMost(overlap, nk, 82)
        THEN Review("high_overlap_incorrect")
        ELSE [needs_review |-> FALSE, review_reason_code |-> ""]

\* _apply_review_metadata
ApplyReviewMetadata(feedback, question_type, answer_key_text, answer_text) ==
    LET d == ResolveReviewDecision(question_type, answer_key_text, answer_text,
                                   feedback.is_correct, feedback.fallback_used)
    IN  [feedback EXCEPT
           !.needs_review = d.needs_review,
           !.review_reason_code = d.review_reason_code,
           !.verdict = IF d.needs_review THEN "AMBIGUOUS"
                       ELSE IF feedback.is_correct THEN "CORRECT" ELSE "INCORRECT"]

\* appeals[-n:]
LastOf(appeals, n) ==
    IF Len(appeals) <= n THEN appeals
    ELSE SubSeq(appeals, Len(appeals) - n + 1, Len(appeals))

\* _attach_feedback_metadata
AttachFeedbackMetadata(feedback, appeals) ==
    LET next_feedback ==
          [feedback EXCEPT
             !.mode = IF feedback.mode # "" THEN feedback.mode ELSE LLM_GRADING_MODE,
             !.verdict = IF feedback.needs_review THEN "AMBIGUOUS"
                         ELSE IF feedback.is_correct THEN "CORRECT" ELSE "INCORRECT",
             !.review_reason_code =
                 IF feedback.needs_review THEN feedback.review_reason_code ELSE ""]
    IN  IF appeals # <<>>
        THEN [next_feedback EXCEPT !.appeals = LastOf(appeals, 20),
                                   !.appeal_pending = FALSE]
        ELSE next_feedback

\* _grade_exam_answer_with_fallback: the decision
FallbackIsCorrect(question_type, answer_key_text, answer_text) ==
    LET normalized_key == NormalizeEvalText(answer_key_text)
        normalized_answer == NormalizeEvalText(answer_text)
        overlap == Overlap(answer_key_text, answer_text)
        nk == Cardinality(TokenizeEvalText(answer_key_text))
        na == Cardinality(TokenizeEvalText(answer_text))
    IN  IF normalized_answer = <<>> THEN FALSE
        ELSE IF question_type = "subjective"
        THEN \/ normalized_answer = normalized_key
             \/ /\ normalized_key # <<>>
                /\ \/ IsInfix(normalized_key, normalized_answer)
                   \/ IsInfix(normalized_answer, normalized_key)
             \/ RatioAtLeast(overlap, nk, 80)
        ELSE /\ RatioAtLeast(overlap, nk, 82)
             /\ RatioAtLeast(overlap, na, 50)
             /\ HasCodeShape(normalized_answer, normalized_key)

\* The feedback dict a grader returns, in the keys followed here.
GraderFeedback(mode, is_correct, fallback_used, fallback_reason_code, llm_error) ==
    [NoExamFeedback EXCEPT !.present = TRUE, !.mode = mode, !.is_correct = is_correct,
                           !.fallback_used = fallback_used,
                           !.fallback_reason_code = fallback_reason_code,
                           !.llm_error = llm_error]

\* _grade_exam_answer_with_fallback: score and feedback
GradeExamAnswerWithFallback(question_type, answer_key_text, answer_text, fallback_reason_code, provider_error_redacted) ==
    LET is_correct == FallbackIsCorrect(question_type, answer_key_text, answer_text)
    IN  [score |-> IF is_correct THEN 100 ELSE 0,
         feedback |-> GraderFeedback(FALLBACK_GRADING_MODE, is_correct, TRUE,
                                     fallback_reason_code, provider_error_redacted)]
\* Variant: an answer found incorrect keeps half of the points.
GradeExamAnswerWithLlm_Partial(is_correct) ==
    [score |-> IF is_correct THEN 100 ELSE 50,
     feedback |-> GraderFeedback(LLM_GRADING_MODE, is_correct, FALSE, "", <<>>)]
\* _grade_exam_answer_with_llm when the model answers: score and feedback
GradeExamAnswerWithLlm(is_correct) ==
    [score |-> IF is_correct THEN 100 ELSE 0,
     feedback |-> GraderFeedback(LLM_GRADING_MODE, is_correct, FALSE, "", <<>>)]


\* Appeals ever made to one submission, and grading jobs ever put on the queue
\* for it.
MaxAppeals == 2
MaxExamRuns == 3

QuestionTypes == {"subjective", "coding"}
\* A multiple-choice question: no answer key text, never graded by the job.
MultipleChoice == [type |-> "multiple_choice", key |-> <<>>]
AnswerKeys == {<<>>, <<"def", "a">>}
AnswerTexts ==
    {<<>>, <<"a">>, <<"b">>, <<"def", "a">>, <<"def", "A">>, <<"def", "def">>,
     <<"def", "b">>}
\* What the call of the model may do: answer correct or incorrect, or raise.
LlmOutcomes ==
    {[called |-> TRUE, ok |-> TRUE, is_correct |-> c, error |-> <<>>] : c \in BOOLEAN}
      \cup {[called |-> TRUE, ok |-> FALSE, is_correct |-> FALSE, error |-> e] :
              e \in LlmErrors}

\* question.type in {"subjective", "coding"} and the answer key is not blank
IsLlmTarget(q) ==
    exam.question[q].type \in {"subjective", "coding"} /\ exam.question[q].key # <<>>
\* _feedback_needs_review
FeedbackNeedsReview(feedback) == feedback.present /\ feedback.needs_review
\* _load_submission_review_pending_counts, for the one submission
ReviewPendingCount ==
    Cardinality({q \in Questions :
                   IsLlmTarget(q) /\ FeedbackNeedsReview(exam.answers[q].feedback)})
\* _resolve_submission_result_visibility
ResultsVisible == exam.results_published \/ exam.sub.results_published

InitExam ==
    /\ GradingIdle
    /\ adm = AdmInit
    /\ sf = SfIdle
    /\ fb = FbIdle
    /\ snap = SnapIdle
    /\ out = OutIdle
    /\ rub = RubIdle
    /\ \E qs \in [Questions -> [type : QuestionTypes \cup {"multiple_choice"},
                                  key : AnswerKeys]] :
         /\ qs[1].type \in QuestionTypes
         /\ \A q \in Questions \ {1} : qs[q] = MultipleChoice
         /\ exam = [ExamIdle EXCEPT !.question = qs]

\* POST /exams/{exam_id}/submit: the answer to a multiple-choice question has
\* no answer_text.
ExamSubmit(texts) ==
    /\ exam.sub.status = NONE
    /\ \A q \in Questions : exam.question[q].type = "multiple_choice" => texts[q] = <<>>
    /\ exam' = [exam EXCEPT !.sub = [status |-> "SUBMITTED", results_published |-> FALSE],
                            !.text = texts,
                            !.answers = [q \in Questions |-> NoAnswer]]
    /\ UNCHANGED <<grading, adm, sf, fb, snap, out, rub>>

\* _prepare_exam_submission_enqueue: the rows after it, when it queues
PreparedAnswers(targets, preserve_feedback_json) ==
    [q \in Questions |->
       IF q \in targets
       THEN [status |-> QUEUED, score |-> NoScore, max_score |-> NoScore,
             feedback |-> IF preserve_feedback_json THEN exam.answers[q].feedback
                          ELSE NoExamFeedback]
       ELSE exam.answers[q]]

\* Variant: a submission that is QUEUED or RUNNING is queued again, forced or
\* not.
PrepareExamSubmissionEnqueue_NoStatusGate(force) ==
    [queued |-> TRUE, message |-> "queued", status |-> QUEUED,
     answers |-> PreparedAnswers({q \in Questions : IsLlmTarget(q)}, FALSE)]
\* _prepare_exam_submission_enqueue without a target question: whether the
\* submission is queued, the reason given, and the submission's status and
\* its answers as the handler leaves them.
PrepareExamSubmissionEnqueue(force) ==
    LET llm_target_rows == {q \in Questions : IsLlmTarget(q)}
    IN  IF llm_target_rows = {}
        THEN [queued |-> FALSE, message |-> "no auto-gradable answer",
              status |-> exam.sub.status, answers |-> exam.answers]
        ELSE IF ~force /\ exam.sub.status \in {QUEUED, RUNNING}
        THEN [queued |-> FALSE, message |-> "already queued or running",
              status |-> exam.sub.status, answers |-> exam.answers]
        ELSE [queued |-> TRUE, message |-> "queued", status |-> QUEUED,
              answers |-> PreparedAnswers(llm_target_rows, FALSE)]

\* POST /admin/grading/exam-submissions/{submission_id}/enqueue: a call that
\* is not queued returns its reason and commits nothing; one that is queued
\* commits the rows and puts one job on the queue.
ExamEnqueue(force) ==
    LET prepared == PrepareExamSubmissionEnqueue(force)
    IN  /\ exam.sub.status # NONE
        /\ exam.delivered < MaxExamRuns
        /\ prepared.queued
        /\ exam' = [exam EXCEPT !.sub.status = prepared.status,
                                !.answers = prepared.answers,
                                !.jobs = @ + 1, !.delivered = @ + 1]
        /\ UNCHANGED <<grading, adm, sf, fb, snap, out, rub>>

\* _append_appeal_feedback
AppendAppealFeedback(feedback, appeal) ==
    [feedback EXCEPT !.present = TRUE,
                     !.appeals = LastOf(Append(feedback.appeals, appeal), 20),
                     !.appeal_pending = TRUE,
                     !.needs_review = TRUE,
                     !.review_reason_code = "appeal_pending",
                     !.verdict = "AMBIGUOUS"]

\* POST /admin/grading/exam-submissions/{submission_id}/appeal-regrade
Appeal(q) ==
    /\ exam.sub.status # NONE
    /\ exam.appealed < MaxAppeals
    /\ exam.delivered < MaxExamRuns
    /\ IsLlmTarget(q)
    /\ LET appended ==
             [exam EXCEPT !.answers[q].feedback =
                            AppendAppealFeedback(exam.answers[q].feedback,
                                                 exam.appealed + 1)]
       IN  exam' = [appended EXCEPT
                      !.sub.status = QUEUED,
                      !.answers[q] = [status |-> QUEUED, score |-> NoScore,
                                      max_score |-> NoScore,
                                      feedback |-> appended.answers[q].feedback],
                      !.appealed = @ + 1, !.jobs = @ + 1, !.delivered = @ + 1]
    /\ UNCHANGED <<grading, adm, sf, fb, snap, out, rub>>

\* _resolve_submission_status_from_answers
ResolveSubmissionStatusFromAnswers(submission_status, rows) ==
    LET counted == {q \in Questions : exam.question[q].type \in {"coding", "subjective"}}
        has_failed == \E q \in counted : rows[q].status = FAILED
        pending == {q \in counted : rows[q].status \notin {FAILED, GRADED}}
        has_pending_auto == \E q \in pending : exam.question[q].key # <<>>
        has_pending_manual == \E q \in pending : exam.question[q].key = <<>>
    IN  IF has_pending_auto
        THEN IF submission_status \in {RUNNING, QUEUED} THEN submission_status
             ELSE "SUBMITTED"
        ELSE IF has_failed THEN FAILED
        ELSE IF has_pending_manual THEN "SUBMITTED"
        ELSE GRADED

\* POST .../answers/{question_id}/manual-grade
ManualGrade(q, is_correct) ==
    /\ exam.sub.status # NONE
    /\ exam.question[q].type # "multiple_choice"
    /\ LET rows ==
             [exam.answers EXCEPT
                ![q] = [status |-> GRADED,
                        score |-> IF is_correct THEN 100 ELSE 0,
                        max_score |-> 100,
                        feedback |->
                          [NoExamFeedback EXCEPT
                             !.present = TRUE, !.source = "manual",
                             !.is_correct = is_correct,
                             !.verdict = IF is_correct THEN "CORRECT" ELSE "INCORRECT"]]]
       IN  exam' = [exam EXCEPT
                      !.answers = rows,
                      !.sub.status = ResolveSubmissionStatusFromAnswers(exam.sub.status, rows)]
    /\ UNCHANGED <<grading, adm, sf, fb, snap, out, rub>>

\* POST /admin/grading/exam-submissions/share, for the one submission
ShareSubmission(publish) ==
    /\ exam.sub.status # NONE
    /\ publish => exam.sub.status = GRADED /\ ReviewPendingCount = 0
    /\ exam.sub.results_published # publish
    /\ exam' = [exam EXCEPT !.sub.results_published = publish]
    /\ UNCHANGED <<grading, adm, sf, fb, snap, out, rub>>

\* POST /admin/exams/{exam_id}/results/share
ShareExam(publish) ==
    /\ publish => /\ exam.sub.status \in {NONE, GRADED}
                  /\ exam.sub.status = NONE \/ ReviewPendingCount = 0
    /\ exam.results_published # publish
    /\ exam' = [exam EXCEPT !.results_published = publish]
    /\ UNCHANGED <<grading, adm, sf, fb, snap, out, rub>>

\* grade_exam_submission_job is run once more for the same id.
Redeliver ==
    /\ exam.sub.status # NONE
    /\ exam.delivered < MaxExamRuns
    /\ exam' = [exam EXCEPT !.jobs = @ + 1, !.delivered = @ + 1]
    /\ UNCHANGED <<grading, adm, sf, fb, snap, out, rub>>

\* auto_target_rows in question order, and manual_review_pending
AutoTargetRows ==
    SelectSeq([q \in Questions |-> q],
              LAMBDA q : IsLlmTarget(q) /\ exam.answers[q].status \in {QUEUED, RUNNING})
ManualReviewPending ==
    Cardinality({q \in Questions :
                   /\ exam.question[q].type \in {"subjective", "coding"}
                   /\ IF exam.question[q].key # <<>>
                      THEN exam.answers[q].status \notin {QUEUED, RUNNING, GRADED, FAILED}
                      ELSE exam.answers[q].status # GRADED})

\* _grade_exam_submission_async from the start to its first commit (or to its
\* only commit, when no answer is to be graded).
JobStart ==
    /\ exam.jobs > 0
    /\ exam.job.phase = "idle"
    /\ LET targets == AutoTargetRows
           inTargets == {targets[i] : i \in 1..Len(targets)}
       IN  IF targets = <<>>
           THEN exam' = [exam EXCEPT
                           !.jobs = @ - 1,
                           !.sub.status = IF ManualReviewPending > 0 THEN "SUBMITTED"
                                          ELSE GRADED]
           ELSE LET running == [q \in Questions |->
                                  IF q \in inTargets
                                  THEN [NoAnswer EXCEPT !.status = RUNNING]
                                  ELSE exam.answers[q]]
                IN  exam' = [exam EXCEPT
                               !.jobs = @ - 1,
                               !.sub.status = RUNNING,
                               !.answers = running,
                               !.job = [JobIdle EXCEPT
                                          !.phase = "running",
                                          !.targets = targets,
                                          !.manual_review_pending = ManualReviewPending,
                                          !.appeals =
                                            [q \in Questions |->
                                               IF q \in inTargets
                                               THEN exam.answers[q].feedback.appeals
                                               ELSE <<>>],
                                          !.rows = running]]
    /\ UNCHANGED <<grading, adm, sf, fb, snap, out, rub>>

\* The row of one answer as the loop leaves it in the session. (The fallback
\* grader is total on the strings the rows hold, so the branch that stores
\* FAILED when it raises is never taken and failed_count stays 0.)
GradedRow(q, outcome, answer_appeals) ==
    LET question == exam.question[q]
        submitted_text == exam.text[q]
        graded ==
          IF submitted_text = <<>>
          THEN [score |-> 0,
                feedback |-> GraderFeedback(LLM_GRADING_MODE, FALSE, FALSE, "", <<>>)]
          ELSE IF outcome.ok THEN GradeExamAnswerWithLlm(outcome.is_correct)
          ELSE GradeExamAnswerWithFallback(question.type, question.key, submitted_text,
                                           ClassifyLlmError(outcome.error), outcome.error)
    IN  [status |-> GRADED, score |-> graded.score, max_score |-> 100,
         feedback |->
           AttachFeedbackMetadata(
               ApplyReviewMetadata(graded.feedback, question.type, question.key,
                                   submitted_text),
               answer_appeals)]

\* One turn of the loop over auto_target_rows.
JobGrade(outcome) ==
    /\ exam.job.phase = "running"
    /\ exam.job.next <= Len(exam.job.targets)
    /\ LET q == exam.job.targets[exam.job.next]
       IN  /\ exam.text[q] = <<>> => outcome = NoCall
           /\ exam.text[q] # <<>> => outcome \in LlmOutcomes
           /\ exam' = [exam EXCEPT
                         !.job.rows[q] = GradedRow(q, outcome, exam.job.appeals[q]),
                         !.job.llm[q] = outcome,
                         !.job.next = @ + 1]
    /\ UNCHANGED <<grading, adm, sf, fb, snap, out, rub>>

\* The end of the job: the submission's status and the last commit, which
\* writes the rows of the targets as the session holds them.
JobFinish ==
    /\ exam.job.phase = "running"
    /\ exam.job.next > Len(exam.job.targets)
    /\ LET inTargets == {exam.job.targets[i] : i \in 1..Len(exam.job.targets)}
       IN  exam' = [exam EXCEPT
                      !.answers = [q \in Questions |->
                                     IF q \in inTargets THEN exam.job.rows[q]
                                     ELSE exam.answers[q]],
                      !.sub.status = IF exam.job.failed_count > 0 THEN FAILED
                                     ELSE IF exam.job.manual_review_pending > 0
                                     THEN "SUBMITTED"
                                     ELSE GRADED,
                      !.job = JobIdle]
    /\ UNCHANGED <<grading, adm, sf, fb, snap, out, rub>>

\* The worker is stopped between the two commits of the job.
JobCrash ==
    /\ exam.job.phase = "running"
    /\ exam' = [exam EXCEPT !.job = JobIdle]
    /\ UNCHANGED <<grading, adm, sf, fb, snap, out, rub>>

NextExam ==
    \/ \E texts \in [Questions -> AnswerTexts] : ExamSubmit(texts)
    \/ \E force \in BOOLEAN : ExamEnqueue(force)
    \/ \E q \in Questions : Appeal(q)
    \/ \E q \in Questions, c \in BOOLEAN : ManualGrade(q, c)
    \/ \E publish \in BOOLEAN : ShareSubmission(publish)
    \/ \E publish \in BOOLEAN : ShareExam(publish)
    \/ Redeliver
    \/ JobStart
    \/ \E outcome \in LlmOutcomes \cup {NoCall} : JobGrade(outcome)
    \/ JobFinish
    \/ JobCrash

SpecExam == InitExam /\ [][NextExam]_vars


\* The error text speaks of an exhausted quota.
IndicatesQuota(error) ==
    \E i \in 1..Len(error) :
       error[i] \in {"insufficient_quota", "You exceeded your current quota"}
\* The targets of the running job for which the call of the model raised.
LlmFailed ==
    {q \in Questions : exam.job.llm[q].called /\ ~exam.job.llm[q].ok}

\* C23: when the job commits, every answer with a non-empty text whose call of
\* the model raised is stored GRADED with a score given by the fallback
\* grader, with fallback_used set and the reason code of the error's class,
\* which is "quota" for an error that speaks of an exhausted quota; and no
\* answer is ever stored FAILED.
C23_LlmErrorFallsBack ==
    [][/\ \A q \in Questions : exam'.answers[q].status # FAILED
       /\ JobFinish =>
            \A q \in LlmFailed :
               LET row == exam'.answers[q]
                   error == exam.job.llm[q].error
               IN  /\ exam.text[q] # <<>>
                   /\ row.status = GRADED
                   /\ row.score \in {0, 100}
                   /\ row.feedback.mode = FALLBACK_GRADING_MODE
                   /\ row.feedback.fallback_used
                   /\ row.feedback.fallback_reason_code = ClassifyLlmError(error)
                   /\ row.feedback.fallback_reason_code
                        \in {"quota", "auth", "rate", "network", "unknown"}
                   /\ IndicatesQuota(error)
                        => row.feedback.fallback_reason_code = "quota"]_vars

\* An answer stored with a fallback result after the model refused with an
\* authorisation status and a text about the quota.
C23_Witness ==
    \E q \in Questions :
       /\ exam.job.phase = "idle"
       /\ exam.answers[q].status = GRADED
       /\ exam.answers[q].feedback.fallback_used
       /\ exam.answers[q].feedback.fallback_reason_code = "quota"
       /\ exam.answers[q].feedback.llm_error
            = <<"status=403", "You exceeded your current quota">>


\* C24: an answer whose stored feedback comes from the fallback grader has
\* needs_review set and the verdict AMBIGUOUS, for every question type, every
\* answer text and either decision of the fallback grader.
C24_FallbackNeedsReview ==
    \A q \in Questions :
       LET feedback == exam.answers[q].feedback
       IN  feedback.present /\ feedback.mode = FALLBACK_GRADING_MODE
             => /\ feedback.fallback_used
                /\ feedback.needs_review
                /\ feedback.verdict = "AMBIGUOUS"

\* A coding answer the fallback grader found correct, stored after the job.
C24_Witness ==
    \E q \in Questions :
       /\ exam.question[q].type = "coding"
       /\ exam.answers[q].status = GRADED
       /\ exam.answers[q].score = 100
       /\ exam.answers[q].feedback.mode = FALLBACK_GRADING_MODE
       /\ exam.answers[q].feedback.is_correct
       /\ exam.answers[q].feedback.review_reason_code = "fallback_used"


\* C25: while the results of the submission are shared with the student, by
\* the submission's own flag or by the exam's, no answer to a subjective or
\* coding question graded by the job is stored with needs_review set.
C25_PublishedHasNoReviewPending ==
    exam.sub.status # NONE /\ ResultsVisible
      => \A q \in Questions :
            /\ IsLlmTarget(q)
            /\ exam.answers[q].status = GRADED
            /\ exam.answers[q].feedback.mode \in {LLM_GRADING_MODE, FALLBACK_GRADING_MODE}
            => ~FeedbackNeedsReview(exam.answers[q].feedback)


\* The appeal entries of answer q: those in its stored feedback, and while a
\* job that read the row is running, those it will write back.
Range(seq) == {seq[i] : i \in 1..Len(seq)}
AppealsHeld(e, q) ==
    Range(e.answers[q].feedback.appeals)
      \cup (IF e.job.phase = "running" THEN Range(e.job.appeals[q]) ELSE {})
\* A step of the manual-grade handler.
IsManualGrade == \E q \in Questions, c \in BOOLEAN : ManualGrade(q, c)

\* C26: no appeal, forced re-enqueue or step of a grading job, an interrupted
\* one included, removes an appeal entry from the feedback of an answer: the
\* history only grows.
C26_AppealHistoryGrows ==
    [][~IsManualGrade
         => \A q \in Questions : AppealsHeld(exam, q) \subseteq AppealsHeld(exam', q)]_vars


\* ------------------------------------------------ snapshots (SpecSnapshot)
\* Grading jobs run for the submission.
MaxGradings == 2
\* Bundle keys are named after the sha256 they were saved under
\* (problem_versions/<id>/<sha256>.zip), so keys and digests share the numbers.
Digests == {1, 2}
RubricVersions == {1, 2}
\* Values of ProblemVersion.max_score.
VersionMaxScores == {50, 100}

\* Variant: the current value of the problem version is taken.
Coalesce_Current(snapshot, current) == current
\* snapshot or current
Coalesce(snapshot, current) == IF snapshot # 0 THEN snapshot ELSE current

InitSnapshot ==
    /\ GradingIdle
    /\ adm = AdmInit
    /\ sf = SfIdle
    /\ fb = FbIdle
    /\ exam = ExamIdle
    /\ out = OutIdle
    /\ rub = RubIdle
    /\ \E k \in Digests \cup {NoKey}, h \in Digests \cup {NoHash}, r \in RubricVersions,
          m \in VersionMaxScores,
          ks \in {1, NoKey}, hs \in Digests \cup {NoHash},
          rs \in {1, NoVersion}, st \in [1..2 -> Digests] :
         snap = [SnapIdle EXCEPT
                   !.version = [bundle_key |-> k, bundle_sha256 |-> h, rubric_version |-> r,
                                max_score |-> m],
                   !.submission = [bundle_key_snapshot |-> ks, bundle_sha256_snapshot |-> hs,
                                   rubric_version_snapshot |-> rs],
                   !.storage = st]

\* storage.save_bundle: the file is copied under the key of the given sha256.
SaveBundle(digest, sha256) ==
    /\ snap' = [snap EXCEPT !.storage[sha256] = digest]
    /\ UNCHANGED <<grading, adm, sf, fb, exam, out, rub>>

\* A column of the problem version is edited.
EditVersion(column, value) ==
    /\ snap' = [snap EXCEPT !.version[column] = value]
    /\ UNCHANGED <<grading, adm, sf, fb, exam, out, rub>>

\* _grade_submission_async for the submission, the sandbox doing sb at every
\* attempt: what it resolved and read, how it ended, and what it upserted into
\* the Grade (the report's score is the share of max_score that passed, in
\* percent). A job that fails leaves the Grade as it was.
SnapGrade(sb) ==
    /\ snap.jobs < MaxGradings
    /\ LET bundle_key ==
             Coalesce(snap.submission.bundle_key_snapshot, snap.version.bundle_key)
           bundle_sha256 ==
             Coalesce(snap.submission.bundle_sha256_snapshot, snap.version.bundle_sha256)
           rubric_version ==
             Coalesce(snap.submission.rubric_version_snapshot, snap.version.rubric_version)
           use == [NoUse EXCEPT !.done = TRUE, !.bundle_key = bundle_key,
                                !.expected = bundle_sha256, !.sandbox = sb]
       IN  IF bundle_key = NoKey
           THEN snap' = [snap EXCEPT !.jobs = @ + 1,
                                     !.use = [use EXCEPT !.status = FAILED]]
           ELSE LET bytes == Bytes(TRUE, snap.storage[bundle_key],
                                   <<MStatement, MTests>>, "ok")
                    r == RunGrader(Bundle(TRUE, bundle_sha256, bytes), sb)
                    score == (r.report.score * snap.version.max_score) \div 100
                IN  snap' =
                      [snap EXCEPT
                         !.jobs = @ + 1,
                         !.use = IF r.report.none
                                 THEN [use EXCEPT !.digest = bytes.digest, !.status = FAILED]
                                 ELSE [use EXCEPT !.digest = bytes.digest,
                                                  !.rubric_version = rubric_version,
                                                  !.status = GRADED,
                                                  !.score = score,
                                                  !.max_score = snap.version.max_score]]
    /\ UNCHANGED <<grading, adm, sf, fb, exam, out, rub>>

NextSnapshot ==
    \/ \E d \in Digests, s \in Digests : SaveBundle(d, s)
    \/ \E k \in Digests \cup {NoKey} : EditVersion("bundle_key", k)
    \/ \E h \in Digests \cup {NoHash} : EditVersion("bundle_sha256", h)
    \/ \E r \in RubricVersions : EditVersion("rubric_version", r)
    \/ \E m \in VersionMaxScores : EditVersion("max_score", m)
    \/ \E sb \in SandboxOutcomes \ {"echo"} : SnapGrade(sb)

SpecSnapshot == InitSnapshot /\ [][NextSnapshot]_vars

\* The submission carries the three snapshots.
HasSnapshots ==
    /\ snap.submission.bundle_key_snapshot # NoKey
    /\ snap.submission.bundle_sha256_snapshot # NoHash
    /\ snap.submission.rubric_version_snapshot # NoVersion

\* C27: a job for a submission that carries the three snapshots reads the
\* bundle under the snapshot key and expects the snapshot hash; when it grades,
\* the bytes it ran have that hash and the rubric version it records is the
\* snapshot one, whatever the problem version holds by then.
C27_GradedAgainstSnapshot ==
    snap.use.done /\ HasSnapshots
      => /\ snap.use.bundle_key = snap.submission.bundle_key_snapshot
         /\ snap.use.expected = snap.submission.bundle_sha256_snapshot
         /\ snap.use.status = GRADED
              => /\ snap.use.digest = snap.submission.bundle_sha256_snapshot
                 /\ snap.use.rubric_version = snap.submission.rubric_version_snapshot

\* A graded submission whose problem version has moved on in all three columns.
C27_Witness ==
    /\ snap.use.done /\ HasSnapshots
    /\ snap.use.status = GRADED
    /\ snap.version.bundle_key # snap.submission.bundle_key_snapshot
    /\ snap.version.bundle_key # NoKey
    /\ snap.version.bundle_sha256 # snap.submission.bundle_sha256_snapshot
    /\ snap.version.bundle_sha256 # NoHash
    /\ snap.version.rubric_version # snap.submission.rubric_version_snapshot

\* A step in which a grading job runs after an earlier one, reading the same
\* bundle bytes under the same key and hash, the sandbox doing the same.
RerunSameBundleAndOutcome ==
    /\ snap.use.done
    /\ snap'.jobs = snap.jobs + 1
    /\ snap'.use.bundle_key = snap.use.bundle_key
    /\ snap'.use.expected = snap.use.expected
    /\ snap'.use.digest = snap.use.digest
    /\ snap'.use.sandbox = snap.use.sandbox

\* C28: a grading job run again for the same submission, with the same bundle
\* and the same sandbox outcome, ends with the Submission status the run before
\* it ended with, and with the same Grade: when it grades, it writes the score,
\* max_score and rubric version the run before it wrote.
C28_RerunSameStatusAndGrade ==
    [][RerunSameBundleAndOutcome
         => /\ snap'.use.status = snap.use.status
            /\ snap'.use.status = GRADED
                 => /\ snap'.use.score = snap.use.score
                    /\ snap'.use.max_score = snap.use.max_score
                    /\ snap'.use.rubric_version = snap.use.rubric_version]_vars


\* ------------------------------------------------ runner output (SpecOutput)
\* A text is the sequence of its lines and a line the sequence of its words;
\* a file name counts one word per path component. MAX_OUTPUT_BYTES counts
\* words, and one for each line break.
MAX_OUTPUT_BYTES == 8

\* lower() of a word
OutLower(w) == CASE w = "Hidden" -> "hidden" [] w = "HIDDEN" -> "hidden" [] OTHER -> w
\* "hidden" in line.lower()
MentionsHidden(line) == \E i \in 1..Len(line) : OutLower(line[i]) = "hidden"
\* _strip_hidden_lines
StripHiddenLines(text) == SelectSeq(text, LAMBDA line : ~MentionsHidden(line))

\* len(text.encode())
RECURSIVE TextSize(_)
TextSize(text) ==
    IF text = <<>> THEN 0
    ELSE Len(Head(text)) + (IF Len(text) > 1 THEN 1 + TextSize(Tail(text)) ELSE 0)
\* encoded[:n]
RECURSIVE ClipText(_, _)
ClipText(text, n) ==
    IF text = <<>> \/ n <= 0 THEN <<>>
    ELSE IF Len(Head(text)) >= n THEN <<SubSeq(Head(text), 1, n)>>
    ELSE <<Head(text)>> \o ClipText(Tail(text), n - Len(Head(text)) - 1)
\* _truncate_output
TruncateOutput(text, limit) ==
    IF TextSize(text) <= limit THEN text
    ELSE ClipText(text, limit) \o << <<"...<truncated>">> >>

\* a + b for two strings: the last line of a runs on into the first of b
Splice(a, b) ==
    IF a = <<>> THEN b
    ELSE IF b = <<>> THEN a
    ELSE SubSeq(a, 1, Len(a) - 1) \o <<a[Len(a)] \o b[1]>> \o Tail(b)

\* _combine_logs: "[stdout]\n{stdout}\n\n[stderr]\n{stderr}", stripped
CombineLogs(stdout, stderr) ==
    TruncateOutput(<< <<"[stdout]">> >> \o (IF stdout = <<>> THEN << <<>> >> ELSE stdout)
                     \o << <<>>, <<"[stderr]">> >> \o stderr,
                   MAX_OUTPUT_BYTES)

\* Members of the archives the runner is called with here.
MPublicTest == Member(<<"tests", "public", "test_a.py">>, FALSE, FALSE, 1, FALSE)
MHiddenTest == Member(<<"tests", "hidden", "test_b.py">>, FALSE, FALSE, 1, FALSE)
MHiddenLink == Member(<<"tests", "hidden", "test_c.py">>, FALSE, FALSE, 1, TRUE)
MHiddenEscape == Member(<<"..", "Hidden", "x">>, FALSE, FALSE, 1, FALSE)
OutArchives ==
    {<<MPublicTest, MHiddenTest>>, <<MPublicTest>>, <<MHiddenTest>>,
     <<MPublicTest, MHiddenLink>>, <<MHiddenEscape, MPublicTest>>, <<MSymlink>>,
     <<MStatement, MPublicTest, MHiddenTest>>}
OutTexts ==
    {<<>>, << <<"ok">>, <<"test", "Hidden", "x">> >>,
     << <<"HIDDEN">>, <<"a", "b", "c", "d", "e", "f", "g", "h", "i">> >>}
\* How the sandbox ends: docker run timed out, or it completed and report.json
\* is missing, is not JSON, or parses.
SandboxEnds ==
    {<<"timeout", "missing">>, <<"completed", "missing">>, <<"completed", "unparsable">>,
     <<"completed", "ok">>}

\* str(exc) of what _safe_extract_zip_bytes raised: the message, and the file
\* name of the member it was raised at when the message carries one.
ExtractError(members) ==
    LET x == SafeExtract(members)
        scanned == {i \in 1..Len(members) : ScanMembers(SubSeq(members, 1, i), 1, 0) # NULL}
        written == {i \in 1..Len(members) :
                      ExtractFrom(SubSeq(members, 1, i), 1, EmptyFs).err # NULL}
        First(S) == CHOOSE i \in S : \A j \in S : i <= j
    IN  CASE x.err = ErrSymlink -> <<ErrSymlink>> \o members[First(scanned)].name
          [] x.err = ErrTraversal -> <<ErrTraversal>> \o members[First(written)].name
          [] OTHER -> <<x.err>>

\* target_path.exists()
TargetExists(fs, test_target) == (Destination \o test_target) \in (fs.dirs \cup fs.files)

\* report["tests"]: the tests pytest collected below the test target, one for
\* each file of the bundle there, with the outcome the sandbox gave it.
Collected(members, test_target, outcomes) ==
    LET at == SelectSeq([i \in 1..Len(members) |-> i],
                        LAMBDA i : /\ ~members[i].dir
                                   /\ Len(members[i].name) > Len(test_target)
                                   /\ SubSeq(members[i].name, 1, Len(test_target)) = test_target)
    IN  [k \in 1..Len(at) |->
           FbTest(members[at[k]].name, outcomes[at[k]], <<"E", "1">>)]

Returns(report_none, tests, exit_code, stderr, stdout) ==
    [raised |-> FALSE, report_none |-> report_none, tests |-> tests, exit_code |-> exit_code,
     stderr |-> stderr, stdout |-> stdout]

\* _run_grader_from_bundle_bytes with the text of everything it returns.
\* i: the inputs (expected hash, digest and members of the bytes, fault of the
\* host or of rubric.yaml, behaviour of the sandbox).
RunGraderOutput(i, test_target) ==
    LET x == SafeExtract(i.archive)
        sb == i.sandbox
        stdout_limited == TruncateOutput(StripHiddenLines(sb.stdout), MAX_OUTPUT_BYTES)
        stderr_limited == TruncateOutput(StripHiddenLines(sb.stderr), MAX_OUTPUT_BYTES)
        detail == Splice(Splice(Splice(<< <<"exit=", "stdout=">> >>, stdout_limited),
                                << <<"stderr=">> >>), stderr_limited)
    IN  IF i.expected # NoHash /\ i.digest # i.expected
        THEN Returns(TRUE, <<>>, 1, << <<"bundle sha256 mismatch">> >>, <<>>)
        ELSE IF x.err # NULL
        THEN Returns(TRUE, <<>>, 1,
                     << <<"bundle extract failed">> \o ExtractError(i.archive) >>, <<>>)
        ELSE IF ~TargetExists(x.fs, test_target)
        THEN Returns(TRUE, <<>>, 1,
                     << <<"bundle missing test target">> \o test_target >>, <<>>)
        ELSE IF i.fault = "rubric" THEN [NoReturn EXCEPT !.raised = TRUE]
        ELSE IF i.fault = "docker"
        THEN Returns(TRUE, <<>>, 1, << <<"docker binary not found">> >>, <<>>)
        ELSE IF sb.launch = "timeout"
        THEN Returns(TRUE, <<>>, 1, << <<"Command", "docker", "run", "timed out">> >>, <<>>)
        ELSE IF sb.report = "missing"
        THEN Returns(TRUE, <<>>, sb.returncode, detail, stdout_limited)
        ELSE IF sb.report = "unparsable"
        THEN Returns(TRUE, <<>>, sb.returncode,
                     << <<"failed to parse report", "Expecting value">> >>, stdout_limited)
        ELSE Returns(FALSE, Collected(i.archive, test_target, sb.outcomes), sb.returncode,
                     stderr_limited, stdout_limited)

InitOutput ==
    /\ GradingIdle
    /\ rub = RubIdle
    /\ adm = AdmInit
    /\ sf = SfIdle
    /\ fb = FbIdle
    /\ exam = ExamIdle
    /\ snap = SnapIdle
    /\ \E h \in {<<NoHash, 1>>, <<1, 1>>, <<1, 2>>}, a \in OutArchives,
          f \in {"none", "rubric", "docker"} :
         \E end \in SandboxEnds, so \in OutTexts,
            se \in {<<>>, << <<"warn">>, <<"in", "hidden", "dir">> >>},
            rc \in {0, 1}, o \in [1..2 -> Outcomes] :
           out = [OutIdle EXCEPT
                    !.phase = "input", !.expected = h[1], !.digest = h[2], !.archive = a,
                    !.fault = f,
                    !.sandbox = [launch |-> end[1], stdout |-> so, stderr |-> se,
                                 returncode |-> rc, report |-> end[2],
                                 outcomes |-> <<o[1], o[2], "passed">>]]

\* One attempt of _grade_submission_async: the runner on the target tests, and
\* the logs and feedback error of the GradeRun the attempt adds.
JobAttempt ==
    /\ out.phase = "input"
    /\ LET ret == RunGraderOutput(out, <<"tests">>)
       IN  out' = [out EXCEPT
                     !.phase = "job",
                     !.ret = ret,
                     !.run = IF ret.raised THEN NoStored
                             ELSE [present |-> TRUE,
                                   logs |-> CombineLogs(ret.stdout, ret.stderr),
                                   error |-> IF ret.report_none THEN ret.stderr ELSE <<>>]]
    /\ UNCHANGED <<grading, adm, sf, fb, exam, snap, rub>>

\* run_public_tests_for_bundle
RunPublicTestsForBundle ==
    /\ out.phase = "input"
    /\ LET ret == RunGraderOutput(out, <<"tests", "public">>)
           public_tests == PublicTests(ret.tests)
           passed == PassedCount(public_tests)
           failed == SelectSeq(public_tests, LAMBDA t : t.outcome # "passed")
           failed_cases ==
             [k \in 1..Len(failed) |->
                [name |-> failed[k].nodeid, outcome |-> failed[k].outcome,
                 message |-> Clip(failed[k].longrepr, 500)]]
       IN  out' = [out EXCEPT
                     !.phase = "dry",
                     !.ret = ret,
                     !.dry =
                       IF ret.raised THEN NoDryRun
                       ELSE IF ret.report_none
                       THEN [NoDryRun EXCEPT !.status = FAILED,
                                             !.docker_exit_code = ret.exit_code,
                                             !.stdout = ret.stdout, !.stderr = ret.stderr]
                       ELSE [status |-> IF passed = Len(public_tests) /\ ret.exit_code = 0
                                        THEN "PASSED" ELSE FAILED,
                             docker_exit_code |-> ret.exit_code,
                             stdout |-> ret.stdout, stderr |-> ret.stderr,
                             public_feedback |->
                               [passed |-> passed, total |-> Len(public_tests),
                                failed_cases |-> failed_cases]]]
    /\ UNCHANGED <<grading, adm, sf, fb, exam, snap, rub>>

NextOutput == JobAttempt \/ RunPublicTestsForBundle

SpecOutput == InitOutput /\ [][NextOutput]_vars

\* No line of the text mentions the word.
NoHiddenLine(text) == \A k \in 1..Len(text) : ~MentionsHidden(text[k])

\* C30: what the runner returns as stdout and stderr, what a job attempt
\* stores of it in the logs and the feedback of its GradeRun, and what a public
\* dry run returns of it, has no line in which "hidden" occurs in any letter
\* case, whichever way the runner returned.
C30_NoHiddenLineInOutput ==
    out.phase \in {"job", "dry"}
      => /\ NoHiddenLine(out.ret.stdout) /\ NoHiddenLine(out.ret.stderr)
         /\ NoHiddenLine(out.run.logs) /\ NoHiddenLine(out.run.error)
         /\ NoHiddenLine(out.dry.stdout) /\ NoHiddenLine(out.dry.stderr)

\* Names of the bundle's files under tests/hidden.
HiddenNames(members) ==
    {members[i].name : i \in {j \in 1..Len(members) :
                                /\ Len(members[j].name) > 2
                                /\ SubSeq(members[j].name, 1, 2) = <<"tests", "hidden">>}}
\* The text has the name of a hidden test on one of its lines.
NamesHiddenTest(text, members) ==
    \E k \in 1..Len(text), n \in HiddenNames(members) : IsInfix(n, text[k])

\* C29: what a public dry run returns lists failed cases only for tests with a
\* /public/ segment in their id and holds no hidden test's name; its status is
\* PASSED exactly when there is a report, every public test the sandbox ran
\* passed and the exit code is 0; and no GradeRun is stored and the pipeline's
\* rows stay as they were.
C29_DryRunShowsPublicOnly ==
    out.phase = "dry" /\ ~out.ret.raised
      => /\ \A k \in 1..Len(out.dry.public_feedback.failed_cases) :
              /\ HasSegment(out.dry.public_feedback.failed_cases[k].name, "public")
              /\ out.dry.public_feedback.failed_cases[k].name \notin HiddenNames(out.archive)
         /\ ~NamesHiddenTest(out.dry.stdout, out.archive)
         /\ ~NamesHiddenTest(out.dry.stderr, out.archive)
         /\ out.dry.status = "PASSED"
              <=> /\ ~out.ret.report_none
                  /\ \A t \in Range(Collected(out.archive, <<"tests", "public">>,
                                               out.sandbox.outcomes)) : t.passed
                  /\ out.ret.exit_code = 0
         /\ out.run = NoStored
         /\ GradingIdle


\* ---------------------------------------------------------------------------
\* The sandbox timeout read from rubric.yaml (_load_rubric).
\* ---------------------------------------------------------------------------

Min(a, b) == IF a <= b THEN a ELSE b

\* A float held in tenths, truncated toward zero as int() does.
Trunc(tenths) == IF tenths >= 0 THEN tenths \div 10 ELSE 0 - ((0 - tenths) \div 10)

\* int(timeout_raw): an int is itself, a bool is 1 or 0, a float is truncated,
\* a string of digits is parsed; None, any other text and an infinite float
\* raise.
IntOf(v) ==
    CASE v.kind \in {"int", "str", "bool"} -> [ok |-> TRUE, n |-> v.n]
      [] v.kind = "float" -> [ok |-> TRUE, n |-> Trunc(v.n)]
      [] OTHER -> [ok |-> FALSE, n |-> 0]

LoadRubricTimeout_NoClamp(v, ceiling) == IF IntOf(v).ok THEN IntOf(v).n ELSE ceiling

\* The timeout _load_rubric returns for the value v under time_limit_seconds
\* and the operator's GRADER_TIMEOUT_SECONDS.
LoadRubricTimeout(v, ceiling) ==
    IF v.kind = "nofile"
      THEN ceiling
      ELSE LET timeout_raw == IF v.kind = "missing" THEN RubricValue("int", ceiling) ELSE v
               c == IntOf(timeout_raw)
               timeout == IF c.ok THEN c.n ELSE ceiling
           IN  Max(1, Min(timeout, ceiling))

\* The values of time_limit_seconds: no rubric.yaml at all, no such key, null,
\* integers, floats (in tenths), digit strings, other text, booleans, .inf.
RubricValues ==
    {RubricValue(k, 0) : k \in {"nofile", "missing", "null", "text", "inf"}}
      \cup {RubricValue("int", n) : n \in {0 - 5, 0 - 1, 0, 1, 2, 5, 30, 31, 1000}}
      \cup {RubricValue("float", n) : n \in {0 - 15, 5, 27, 400}}
      \cup {RubricValue("str", n) : n \in {2, 50}}
      \cup {RubricValue("bool", n) : n \in {0, 1}}

\* GRADER_TIMEOUT_SECONDS is int() of an environment variable; 30 by default.
Ceilings == {0, 1, 3, 30}

InitRubric ==
    /\ GradingIdle
    /\ adm = AdmInit
    /\ sf = SfIdle
    /\ fb = FbIdle
    /\ exam = ExamIdle
    /\ snap = SnapIdle
    /\ out = OutIdle
    /\ \E v \in RubricValues, c \in Ceilings :
         rub = [phase |-> "file", value |-> v, ceiling |-> c, timeout |-> 0]

LoadRubric ==
    /\ rub.phase = "file"
    /\ rub' = [rub EXCEPT !.phase = "loaded",
                          !.timeout = LoadRubricTimeout(rub.value, rub.ceiling)]
    /\ UNCHANGED <<grading, adm, sf, fb, exam, snap, out>>

NextRubric == LoadRubric

SpecRubric == InitRubric /\ [][NextRubric]_vars

\* C31 (as stated): the timeout is max(1, min(time_limit_seconds, ceiling)) for
\* an integer value and the clamped ceiling for a missing or non-integer one,
\* and it never exceeds the ceiling.
C31_TimeoutIsClampedInteger ==
    rub.phase = "loaded" =>
      /\ rub.timeout = IF rub.value.kind \in {"int", "str", "bool"}
                         THEN Max(1, Min(rub.value.n, rub.ceiling))
                         ELSE Max(1, Min(rub.ceiling, rub.ceiling))
      /\ rub.timeout <= rub.ceiling

\* C31 (amended): the timeout is max(1, min(v, ceiling)) where v is the value
\* as int() converts it (a float truncated toward zero) and the ceiling when
\* the key is missing or int() raises; without a rubric.yaml it is the ceiling
\* itself; it never exceeds max(1, ceiling).
C31_TimeoutByConversion ==
    rub.phase = "loaded" =>
      /\ rub.value.kind = "nofile" => rub.timeout = rub.ceiling
      /\ rub.value.kind \in {"missing", "null", "text", "inf"}
           => rub.timeout = Max(1, rub.ceiling)
      /\ rub.value.kind \in {"int", "str", "bool"}
           => rub.timeout = Max(1, Min(rub.value.n, rub.ceiling))
      /\ rub.value.kind = "float"
           => rub.timeout = Max(1, Min(Trunc(rub.value.n), rub.ceiling))
      /\ rub.timeout <= Max(1, rub.ceiling)

\* A rubric asking for 2.7 seconds under a ceiling of 30 runs with 2.
C31_Witness ==
    /\ rub.phase = "loaded"
    /\ rub.value = RubricValue("float", 27)
    /\ rub.ceiling = 30
    /\ rub.timeout = 2


\* ---------------------------------------------------------------------------
\* GradeRun rows are only ever added.
\* ---------------------------------------------------------------------------

\* The step ends an execution attempt of worker w: the runner returned no
\* report or raised, or the commit that follows a report is made.
EndsAttempt(w) ==
    /\ JobStep(w)
    /\ \/ wk[w].pc = "running" /\ wk'[w].pc # "upsert"
       \/ wk[w].pc = "upsert"

\* grade_runs of every submission: rows are added one at a time and the newest
\* row either stays or gives way to a row with a larger id.
RunsOnlyAdded ==
    \A s \in Subs :
        gradeRuns'[s] # gradeRuns[s]
          => /\ CommitsRun(s)
             /\ gradeRuns'[s].newest.id >= gradeRuns[s].newest.id
             /\ gradeRuns'[s].newest # gradeRuns[s].newest
                  => gradeRuns'[s].newest.id > gradeRuns[s].newest.id

\* The failed GradeRuns of one job carry the attempt numbers 1, 2, ... in the
\* order they are created.
FailedRunsNumbered ==
    \A w \in Workers :
        (JobStep(w) /\ wk[w].pc = "running" /\ CommitsFailure(wk[w].sub))
          => gradeRuns'[wk[w].sub].newest.attempt = wk[w].made + 1

\* C32: grading jobs, the watchdog and re-enqueues only add GradeRun rows:
\* every execution attempt adds exactly one, no existing row is modified or
\* deleted, and the failed GradeRuns of one job are numbered 1, 2, ... in
\* creation order.
C32_EveryAttemptAddsOneRun ==
    [][/\ RunsOnlyAdded
       /\ FailedRunsNumbered
       /\ \A w \in Workers : EndsAttempt(w) => CommitsRun(wk[w].sub)]_vars


\* C39: an archive that _safe_extract_zip_bytes rejects (too many entries, too
\* large, a symlink entry, a path-traversal entry) leaves the destination
\* directory as it was: none of its entries has been written.
C39_RejectedWritesNothing ==
    (ex.phase = "done" /\ ex.err \in {ErrTooMany, ErrTooLarge, ErrSymlink, ErrTraversal})
      => ex.fs = EmptyFs


\* ---------------------------------------------------------------------------
\* The watchdog endpoint interrupted between its commit and its enqueues.
\* ---------------------------------------------------------------------------

\* POST /admin/watchdog/requeue-stale cut short: the status reset of
\* requeue_stale_running_submissions is committed, then the endpoint's loop
\* over the returned ids stops after `done` of them (grading_queue.enqueue
\* raises, or the process ends), and nothing puts the statuses back.
SweepInterrupted(stale_seconds, max_requeue, done) ==
    LET threshold == ThresholdSeconds(stale_seconds)
        ids == StaleBefore(wd.now - threshold, max_requeue)
    IN  /\ runSeq < MaxRuns
        /\ done < Len(ids)
        /\ Len(queue) + done <= MaxJobs
        /\ status' = [s \in Subs |->
                        IF \E i \in 1..Len(ids) : ids[i] = s THEN QUEUED ELSE status[s]]
        /\ queue' = queue \o SubSeq(ids, 1, done)
        /\ UNCHANGED <<bundle, enq, runSeq, gradeRuns, grades, wk, escaped, ex, wd, adm, sf, fb, exam, snap, out, rub>>

NextRequeue ==
    \/ NextWatchdog
    \/ \E ss \in StaleSeconds, mr \in MaxRequeues, done \in 0..(NSubs - 1) :
         SweepInterrupted(ss, mr, done)

SpecRequeue == Init /\ [][NextRequeue]_vars

\* A job for s waits in the queue, or a worker has taken one and not yet
\* marked s RUNNING.
HasJob(s) ==
    \/ \E i \in 1..Len(queue) : queue[i] = s
    \/ \E w \in Workers : wk[w].pc = "loaded" /\ wk[w].sub = s

\* C38: after the watchdog's requeue-stale operation no submission is left
\* QUEUED without a job that will process it, also when the enqueue fails or
\* the operation is interrupted after the status reset was committed.
C38_QueuedHasJob == \A s \in Subs : status[s] = QUEUED => HasJob(s)


\* ---------------------------------------------------------------------------
\* An exam with two free-text questions: appeals, manual grades and grading
\* jobs that touch different answers of one submission (SpecAppeal).
\* ---------------------------------------------------------------------------

\* The answers handed in and what the model replies, kept to the cases that
\* tell the rows of the two questions apart.
AppealTexts == {<<>>, <<"def", "a">>}
AppealOutcomes ==
    {[called |-> TRUE, ok |-> TRUE, is_correct |-> c, error |-> <<>>] : c \in BOOLEAN}
      \cup {[called |-> TRUE, ok |-> FALSE, is_correct |-> FALSE, error |-> <<"Connection reset">>]}

\* Question 1 is subjective with an answer key, question 2 is subjective with
\* or without one; any further question is multiple choice.
InitAppeal ==
    /\ GradingIdle
    /\ adm = AdmInit
    /\ sf = SfIdle
    /\ fb = FbIdle
    /\ snap = SnapIdle
    /\ out = OutIdle
    /\ rub = RubIdle
    /\ \E k \in AnswerKeys :
         exam = [ExamIdle EXCEPT
                   !.question =
                     [q \in Questions |->
                        IF q = 1 THEN [type |-> "subjective", key |-> <<"def", "a">>]
                        ELSE IF q = 2 THEN [type |-> "subjective", key |-> k]
                        ELSE MultipleChoice]]

NextAppeal ==
    \/ \E texts \in [Questions -> AppealTexts] : ExamSubmit(texts)
    \/ \E force \in BOOLEAN : ExamEnqueue(force)
    \/ \E q \in Questions : Appeal(q)
    \/ \E q \in Questions, c \in BOOLEAN : ManualGrade(q, c)
    \/ Redeliver
    \/ JobStart
    \/ \E outcome \in AppealOutcomes \cup {NoCall} : JobGrade(outcome)
    \/ JobFinish
    \/ JobCrash

SpecAppeal == InitAppeal /\ [][NextAppeal]_vars


\* The free-text questions: their answers are graded by the job or by hand.
FreeText == {q \in Questions : exam.question[q].type \in {"subjective", "coding"}}

\* C35: whenever the grading job or a manual grade sets the submission's
\* status to GRADED, every subjective or coding answer of the submission has
\* grading_status GRADED.
C35_GradedMeansAllGraded ==
    [][((JobStart \/ JobFinish \/ IsManualGrade) /\ exam'.sub.status = GRADED)
         => \A q \in FreeText : exam'.answers[q].status = GRADED]_vars


\* Answer q holds a manual grade: GRADED with the feedback the manual-grade
\* handler writes.
ManuallyGraded(q) ==
    /\ exam.answers[q].status = GRADED
    /\ exam.answers[q].feedback.present
    /\ exam.answers[q].feedback.source = "manual"

\* C36: a grading job that was running when an admin committed a manual grade
\* of an answer does not overwrite that grade with its own result.
C36_ManualGradeSurvivesJob ==
    [][JobFinish
         => \A q \in Questions :
               ManuallyGraded(q) => exam'.answers[q].score = exam.answers[q].score]_vars


\* Answer q was re-queued by an appeal that no job has taken up yet.
AppealPending(q) ==
    exam.answers[q].status = QUEUED /\ exam.answers[q].feedback.appeal_pending

\* The one job waiting is the job an appeal put on the queue. (An appealed
\* answer is still QUEUED, so no job has started since that appeal, and no
\* other job waits.)
AppealJobWaits == exam.jobs = 1 /\ \E q \in Questions : AppealPending(q)

\* The answers a job that has started will write.
JobTargets(job) == {job.targets[i] : i \in 1..Len(job.targets)}

\* The appeal handler changes the answer of its question only, and sets it
\* QUEUED.
AppealFrame ==
    \A q \in Questions :
        Appeal(q) => /\ exam'.answers[q].status = QUEUED
                     /\ \A p \in Questions \ {q} : exam'.answers[p] = exam.answers[p]

\* A step of a grading job changes the answers of its targets only.
JobWritesTargetsOnly ==
    /\ JobStart => \A p \in Questions \ JobTargets(exam'.job) :
                       exam'.answers[p] = exam.answers[p]
    /\ (JobFinish \/ \E o \in LlmOutcomes \cup {NoCall} : JobGrade(o))
         => \A p \in Questions \ JobTargets(exam.job) : exam'.answers[p] = exam.answers[p]

\* C33: an appeal sets only its question's answer to QUEUED, and
\* neither the appeal nor the job it triggers changes the grading_status,
\* score or feedback of any other answer: the job takes only appealed answers.
C33_AppealTouchesOneAnswer ==
    [][/\ AppealFrame
       /\ JobWritesTargetsOnly
       /\ (JobStart /\ AppealJobWaits)
            => \A p \in JobTargets(exam'.job) : AppealPending(p)]_vars

\* ---------------------------------------------------------------------------
\* The exam grading job under fair scheduling.
\* ---------------------------------------------------------------------------

\* The worker takes a job that waits in the queue and a job that has started
\* goes on to its last commit unless the worker is stopped. Nothing enqueues a
\* job for an exam submission by itself: enqueue, appeal and manual grade are
\* requests of an admin, and nothing runs grade_exam_submission_job again
\* after a worker that was stopped (rq does not retry it and the watchdog
\* looks at programming submissions only).
SpecExamFair ==
    /\ SpecExam
    /\ WF_vars(JobStart)
    /\ WF_vars(\E outcome \in LlmOutcomes \cup {NoCall} : JobGrade(outcome))
    /\ WF_vars(JobFinish)

\* C37: every answer the grading job marks RUNNING is eventually GRADED or
\* FAILED, also when the job is interrupted between the commit that marks the
\* answers RUNNING and its last commit.
C37_RunningAnswerEventuallyEnds ==
    \A q \in Questions :
        (exam.answers[q].status = RUNNING) ~> (exam.answers[q].status \in {GRADED, FAILED})


\* Answer q holds a result of the grading job: GRADED by the model, by the
\* fallback grader or by the shortcut for an empty answer.
JobGraded(q) ==
    /\ exam.answers[q].status = GRADED
    /\ exam.answers[q].feedback.present
    /\ exam.answers[q].feedback.source # "manual"

\* C40: an answer graded by the model, by the fallback grader or by the
\* empty-answer shortcut is stored with a score of 0 or 100 out of 100, the
\* score is 100 exactly when is_correct is set, and the verdict is AMBIGUOUS
\* exactly when needs_review is set and otherwise CORRECT exactly when
\* is_correct is set.
C40_StoredResultIsBinary ==
    \A q \in Questions :
        JobGraded(q) =>
          LET row == exam.answers[q]
          IN  /\ row.score \in {0, 100}
              /\ row.max_score = 100
              /\ row.score = 100 <=> row.feedback.is_correct
              /\ row.feedback.verdict \in {"AMBIGUOUS", "CORRECT", "INCORRECT"}
              /\ row.feedback.verdict = "AMBIGUOUS" <=> row.feedback.needs_review
              /\ ~row.feedback.needs_review
                   => (row.feedback.verdict = "CORRECT" <=> row.feedback.is_correct)

\* The model found an answer correct that shares too little with the key:
\* stored with the full score, for review.
C40_Witness ==
    \E q \in Questions :
        /\ JobGraded(q)
        /\ exam.answers[q].feedback.mode = LLM_GRADING_MODE
        /\ exam.answers[q].score = 100
        /\ exam.answers[q].feedback.needs_review
        /\ exam.answers[q].feedback.verdict = "AMBIGUOUS"

====
